---- MODULE Spec2Model ----
(***************************************************************************)
(* Occurrence & reminder lifecycle engine of the reminder daemon:          *)
(* the store (db.py), the rule deriver (reminders.py) and the scheduler /   *)
(* command handler (daemon.py).                                             *)
(*                                                                         *)
(* Time is in seconds, as in the code.  A datetime is a record             *)
(* [wall, off]: the wall-clock reading in seconds and the UTC offset of    *)
(* its tzinfo (NoTz for a naive datetime).  The wall clock of the host is  *)
(* the variable clock; it never runs backwards.                            *)
(***************************************************************************)
EXTENDS Integers, Sequences, FiniteSets, Bags, TLC

\* ------------------------------------------------------------------ bounds
\* Number of instants, after the first, at which the clock is read.
MaxInstants == 2
\* Number of rows of custom_reminders.
MaxCustom == 1
\* Largest limit passed to the due command and to list_due_reminders.
MaxLimit == 2
\* Number of rows of each reminder table of a drawn database.
MaxRows == 2

\* -------------------------------------------------------- program constants
\* SQL NULL in the nullable columns fired_utc, acked_utc, cancelled_utc.
NULL == -1
\* tzinfo of a naive datetime.
NoTz == 100000
\* utcoffset of the local system time zone, in seconds.
LocalTzOffset == 3600
\* DaemonState.sync_interval_s
SyncIntervalS == 60
\* DaemonState.spawn_throttle_s
SpawnThrottleS == 10

\* -------------------------------------------------------------- datetimes
local_tz == LocalTzOffset

to_utc_epoch_seconds(dt) ==
    LET d == IF dt.off = NoTz THEN [dt EXCEPT !.off = local_tz] ELSE dt
    IN  d.wall - d.off

\* dt - timedelta(seconds = s): arithmetic on the wall clock, same tzinfo
MinusSeconds(dt, s) == [dt EXCEPT !.wall = dt.wall - s]

\* 06:00 in the local zone, whatever the tzinfo of the start.
_six_am_on_event_date_mut(event_start_local) ==
    [wall |-> (event_start_local.wall \div (24 * 3600)) * (24 * 3600) + 6 * 3600,
     off |-> local_tz]

_six_am_on_event_date(event_start_local) ==
    LET tz == IF event_start_local.off = NoTz THEN local_tz ELSE event_start_local.off
        d  == event_start_local.wall \div (24 * 3600)
    IN  [wall |-> d * (24 * 3600) + 6 * 3600, off |-> tz]

\* A rule table whose six_am reminder asks for an acknowledgement.
compute_rule_specs_mut(event_start_local, event_end_local, all_day) ==
    LET s == IF event_start_local.off = NoTz
             THEN [event_start_local EXCEPT !.off = local_tz]
             ELSE event_start_local
    IN  << [rule_name |-> "week_before",
            trigger_local |-> MinusSeconds(s, 7 * 24 * 3600), requires_ack |-> 0],
           [rule_name |-> "day_before",
            trigger_local |-> MinusSeconds(s, 24 * 3600), requires_ack |-> 1],
           [rule_name |-> "six_am",
            trigger_local |-> _six_am_on_event_date(s), requires_ack |-> 1],
           [rule_name |-> "minus_30m",
            trigger_local |-> MinusSeconds(s, 30 * 60), requires_ack |-> 1] >>

compute_rule_specs(event_start_local, event_end_local, all_day) ==
    LET s == IF event_start_local.off = NoTz
             THEN [event_start_local EXCEPT !.off = local_tz]
             ELSE event_start_local
    IN  << [rule_name |-> "week_before",
            trigger_local |-> MinusSeconds(s, 7 * 24 * 3600), requires_ack |-> 0],
           [rule_name |-> "day_before",
            trigger_local |-> MinusSeconds(s, 24 * 3600), requires_ack |-> 1],
           [rule_name |-> "six_am",
            trigger_local |-> _six_am_on_event_date(s), requires_ack |-> 0],
           [rule_name |-> "minus_30m",
            trigger_local |-> MinusSeconds(s, 30 * 60), requires_ack |-> 1] >>

\* ------------------------------------------------- the calendar collaborator
\* 06:00 local time on day 8
SixAmWall == 8 * 24 * 3600 + 6 * 3600

\* The first instant, at which the daemon is first started, is half a
\* throttle window before that.
StartWall == SixAmWall - SpawnThrottleS \div 2
StartClock == StartWall - LocalTzOffset

\* The k-th instant at which the clock is read: half a throttle window, a
\* sync interval, a sync interval and half a throttle window after the first,
\* and so on.
Instant(k) ==
    StartClock + (k \div 2) * SyncIntervalS + (k % 2) * (SpawnThrottleS \div 2)

AwareLocal(wall) == [wall |-> wall, off |-> LocalTzOffset]

\* Event "a" starts at 06:15 local time of day 8.  EventA2 is the same
\* instant reported in the zone one hour to the west, with a later end.
EventA1 ==
    [id |-> "a", start |-> AwareLocal(SixAmWall + 900),
     end |-> AwareLocal(SixAmWall + 900 + 3600), all_day |-> FALSE]
EventA2 ==
    [id |-> "a",
     start |-> [wall |-> SixAmWall + 900 - 3600, off |-> LocalTzOffset - 3600],
     end |-> [wall |-> SixAmWall + 900 + 3600, off |-> LocalTzOffset - 3600],
     all_day |-> FALSE]
\* An event without id.
EventN ==
    [id |-> "", start |-> AwareLocal(SixAmWall),
     end |-> AwareLocal(SixAmWall + 3600), all_day |-> FALSE]

\* Event "p" starts at 06:30 local time of day 8: its six_am and minus_30m
\* reminders have the same trigger.
EventP ==
    [id |-> "p", start |-> AwareLocal(SixAmWall + 1800),
     end |-> AwareLocal(SixAmWall + 1800 + 3600), all_day |-> FALSE]

\* Event "w" starts at 06:00 local time of day 15: one week after the second
\* instant, and more than one week after the first.
EventW ==
    [id |-> "w", start |-> AwareLocal(SixAmWall + 7 * 24 * 3600),
     end |-> AwareLocal(SixAmWall + 7 * 24 * 3600 + 3600), all_day |-> FALSE]

\* What list_events can return, the events of the window ordered by start and
\* each id once, for a calendar that holds event "a" and for one that holds
\* event "p".
CalendarResults ==
    { <<>>, << EventA1 >>, << EventA2 >>, << EventN, EventA1 >> }
PairCalendarResults ==
    { <<>>, << EventP >> }
WeekCalendarResults ==
    { <<>>, << EventW >> }

\* ------------------------------------------------------------------ store
Range(s) == { s[i] : i \in DOMAIN s }

ReminderRef(kind, id) == [kind |-> kind, id |-> id]
NoRef == ReminderRef("none", 0)

\* The database: its three tables as sets of rows.  The column created_utc
\* of the reminder tables is written on insert and read by no statement; the
\* rows here leave it out.
EmptyDb == [occurrences |-> {}, rule_reminders |-> {}, custom_reminders |-> {}]

OccRows(conn, event_id, start_utc) ==
    { o \in conn.occurrences : o.event_id = event_id /\ o.start_utc = start_utc }

\* INTEGER PRIMARY KEY of a new row: one more than the largest rowid.
NextId(rows) ==
    IF rows = {} THEN 1
    ELSE (CHOOSE m \in { r.id : r \in rows } : \A r \in rows : r.id <= m) + 1

\* upsert_occurrence whose DO UPDATE also sets dropped = 0.
upsert_occurrence_mut(conn, event_id, start_utc, end_utc, all_day, last_seen_utc) ==
    LET rows == OccRows(conn, event_id, start_utc)
    IN  IF rows = {}
        THEN [conn |-> [conn EXCEPT !.occurrences = @ \cup
                          {[event_id |-> event_id, start_utc |-> start_utc,
                            end_utc |-> end_utc, all_day |-> all_day,
                            dropped |-> 0, last_seen_utc |-> last_seen_utc]}],
              inserted |-> TRUE, changed |-> TRUE]
        ELSE LET row == CHOOSE o \in rows : TRUE
             IN  [conn |-> [conn EXCEPT !.occurrences =
                              { IF o \in rows
                                THEN [o EXCEPT !.end_utc = end_utc, !.all_day = all_day,
                                               !.last_seen_utc = last_seen_utc,
                                               !.dropped = 0]
                                ELSE o : o \in @ }],
                  inserted |-> FALSE,
                  changed |-> (row.end_utc # end_utc) \/ (row.all_day # all_day)]

\* Returns [conn, inserted, changed].
upsert_occurrence(conn, event_id, start_utc, end_utc, all_day, last_seen_utc) ==
    LET rows == OccRows(conn, event_id, start_utc)
    IN  IF rows = {}
        THEN [conn |-> [conn EXCEPT !.occurrences = @ \cup
                          {[event_id |-> event_id, start_utc |-> start_utc,
                            end_utc |-> end_utc, all_day |-> all_day,
                            dropped |-> 0, last_seen_utc |-> last_seen_utc]}],
              inserted |-> TRUE, changed |-> TRUE]
        ELSE LET row == CHOOSE o \in rows : TRUE
             IN  [conn |-> [conn EXCEPT !.occurrences =
                              { IF o \in rows
                                THEN [o EXCEPT !.end_utc = end_utc, !.all_day = all_day,
                                               !.last_seen_utc = last_seen_utc]
                                ELSE o : o \in @ }],
                  inserted |-> FALSE,
                  changed |-> (row.end_utc # end_utc) \/ (row.all_day # all_day)]

\* Python's None, where a row or a reference is expected.
None == [none |-> TRUE]

\* The row, or None.
get_occurrence(conn, event_id, start_utc) ==
    LET rows == OccRows(conn, event_id, start_utc)
    IN  IF rows = {} THEN None ELSE CHOOSE o \in rows : TRUE

\* A table without the unique index on (event_id, occ_start_utc, rule_name):
\* no insert conflicts.
RuleKeyRows_mut(conn, event_id, occ_start_utc, rule_name) == {}

\* The rows that conflict with an insert, by the unique index
\* ux_rule_reminders_occ_rule.
RuleKeyRows(conn, event_id, occ_start_utc, rule_name) ==
    { r \in conn.rule_reminders :
        r.event_id = event_id /\ r.occ_start_utc = occ_start_utc /\ r.rule_name = rule_name }

\* A DO UPDATE without WHERE clause.
Refreshable_mut(r) == TRUE

\* The WHERE clause of the DO UPDATE of ensure_rule_reminder.
Refreshable(r) == r.acked_utc = NULL /\ r.cancelled_utc = NULL

\* INSERT OR REPLACE: a conflicting row is deleted and a new row inserted.
ensure_rule_reminder_mut(conn, event_id, occ_start_utc, rule_name, trigger_utc, requires_ack, created_utc) ==
    [conn |-> [conn EXCEPT !.rule_reminders =
                 (@ \ RuleKeyRows(conn, event_id, occ_start_utc, rule_name)) \cup
                 {[id |-> NextId(conn.rule_reminders), event_id |-> event_id,
                   occ_start_utc |-> occ_start_utc, rule_name |-> rule_name,
                   trigger_utc |-> trigger_utc, requires_ack |-> requires_ack,
                   acked_utc |-> NULL, fired_utc |-> NULL, cancelled_utc |-> NULL]}],
     ret |-> TRUE]

\* Returns [conn, ret]; ret is cur.rowcount == 1: the statement inserted a row
\* or its DO UPDATE changed one.
ensure_rule_reminder(conn, event_id, occ_start_utc, rule_name, trigger_utc, requires_ack, created_utc) ==
    LET conflict == RuleKeyRows(conn, event_id, occ_start_utc, rule_name)
    IN  IF conflict = {}
        THEN [conn |-> [conn EXCEPT !.rule_reminders = @ \cup
                          {[id |-> NextId(conn.rule_reminders), event_id |-> event_id,
                            occ_start_utc |-> occ_start_utc, rule_name |-> rule_name,
                            trigger_utc |-> trigger_utc, requires_ack |-> requires_ack,
                            acked_utc |-> NULL,
                            fired_utc |-> NULL, cancelled_utc |-> NULL]}],
              ret |-> TRUE]
        ELSE LET upd == { r \in conflict : Refreshable(r) }
             IN  [conn |-> [conn EXCEPT !.rule_reminders =
                              { IF r \in upd
                                THEN [r EXCEPT !.trigger_utc = trigger_utc,
                                               !.requires_ack = requires_ack]
                                ELSE r : r \in @ }],
                  ret |-> Cardinality(upd) = 1]

\* An UPDATE without the conditions on event_id and occ_start_utc.
cancel_pending_rule_reminders_for_occurrence_mut(conn, event_id, occ_start_utc, cancelled_utc) ==
    LET upd == { r \in conn.rule_reminders : r.acked_utc = NULL /\ r.cancelled_utc = NULL }
    IN  [conn |-> [conn EXCEPT !.rule_reminders =
                     { IF r \in upd THEN [r EXCEPT !.cancelled_utc = cancelled_utc] ELSE r
                       : r \in @ }],
         n |-> Cardinality(upd)]

cancel_pending_rule_reminders_for_occurrence(conn, event_id, occ_start_utc, cancelled_utc) ==
    LET upd == { r \in conn.rule_reminders :
                   /\ r.event_id = event_id /\ r.occ_start_utc = occ_start_utc
                   /\ r.acked_utc = NULL /\ r.cancelled_utc = NULL }
    IN  [conn |-> [conn EXCEPT !.rule_reminders =
                     { IF r \in upd THEN [r EXCEPT !.cancelled_utc = cancelled_utc] ELSE r
                       : r \in @ }],
         n |-> Cardinality(upd)]

\* An INSERT whose values occ_start_utc and trigger_utc are interchanged.
insert_custom_reminder_mut(conn, event_id, occ_start_utc, trigger_utc, requires_ack, created_utc) ==
    LET id == NextId(conn.custom_reminders)
    IN  [conn |-> [conn EXCEPT !.custom_reminders = @ \cup
                     {[id |-> id, event_id |-> event_id, occ_start_utc |-> trigger_utc,
                       trigger_utc |-> occ_start_utc, requires_ack |-> requires_ack,
                       acked_utc |-> NULL,
                       fired_utc |-> NULL, cancelled_utc |-> NULL]}],
         id |-> id]

\* Returns [conn, id].
insert_custom_reminder(conn, event_id, occ_start_utc, trigger_utc, requires_ack, created_utc) ==
    LET id == NextId(conn.custom_reminders)
    IN  [conn |-> [conn EXCEPT !.custom_reminders = @ \cup
                     {[id |-> id, event_id |-> event_id, occ_start_utc |-> occ_start_utc,
                       trigger_utc |-> trigger_utc, requires_ack |-> requires_ack,
                       acked_utc |-> NULL,
                       fired_utc |-> NULL, cancelled_utc |-> NULL]}],
         id |-> id]

\* An UPDATE with the further condition fired_utc IS NULL.
cancel_pending_custom_reminders_for_occurrence_mut(conn, event_id, occ_start_utc, cancelled_utc) ==
    LET upd == { r \in conn.custom_reminders :
                   /\ r.event_id = event_id /\ r.occ_start_utc = occ_start_utc
                   /\ r.acked_utc = NULL /\ r.cancelled_utc = NULL /\ r.fired_utc = NULL }
    IN  [conn |-> [conn EXCEPT !.custom_reminders =
                     { IF r \in upd THEN [r EXCEPT !.cancelled_utc = cancelled_utc] ELSE r
                       : r \in @ }],
         n |-> Cardinality(upd)]

cancel_pending_custom_reminders_for_occurrence(conn, event_id, occ_start_utc, cancelled_utc) ==
    LET upd == { r \in conn.custom_reminders :
                   /\ r.event_id = event_id /\ r.occ_start_utc = occ_start_utc
                   /\ r.acked_utc = NULL /\ r.cancelled_utc = NULL }
    IN  [conn |-> [conn EXCEPT !.custom_reminders =
                     { IF r \in upd THEN [r EXCEPT !.cancelled_utc = cancelled_utc] ELSE r
                       : r \in @ }],
         n |-> Cardinality(upd)]

\* Returns [conn, n_rule, n_custom].
drop_occurrence(conn, event_id, occ_start_utc, now_utc) ==
    LET c0 == [conn EXCEPT !.occurrences =
                 { IF o.event_id = event_id /\ o.start_utc = occ_start_utc
                   THEN [o EXCEPT !.dropped = 1] ELSE o : o \in @ }]
        r1 == cancel_pending_rule_reminders_for_occurrence(
                  c0, event_id, occ_start_utc, now_utc)
        r2 == cancel_pending_custom_reminders_for_occurrence(
                  r1.conn, event_id, occ_start_utc, now_utc)
    IN  [conn |-> r2.conn, n_rule |-> r1.n, n_custom |-> r2.n]

\* A row of either table as the ReminderRow of the union queries.
RuleRow(r) ==
    [ref |-> ReminderRef("rule", r.id), event_id |-> r.event_id,
     occ_start_utc |-> r.occ_start_utc, trigger_utc |-> r.trigger_utc,
     requires_ack |-> r.requires_ack,
     fired_utc |-> r.fired_utc, acked_utc |-> r.acked_utc,
     cancelled_utc |-> r.cancelled_utc, rule_name |-> r.rule_name]
CustomRow(r) ==
    [ref |-> ReminderRef("custom", r.id), event_id |-> r.event_id,
     occ_start_utc |-> r.occ_start_utc, trigger_utc |-> r.trigger_utc,
     requires_ack |-> r.requires_ack,
     fired_utc |-> r.fired_utc, acked_utc |-> r.acked_utc,
     cancelled_utc |-> r.cancelled_utc, rule_name |-> "NULL"]

AllReminders(conn) ==
    { RuleRow(r) : r \in conn.rule_reminders } \cup
    { CustomRow(r) : r \in conn.custom_reminders }

\* ORDER BY trigger_utc DESC LIMIT k.
RECURSIVE OrderByTriggerLimit_mut(_, _)
OrderByTriggerLimit_mut(rows, k) ==
    IF k = 0 \/ rows = {} THEN { <<>> }
    ELSE UNION { { <<r>> \o t : t \in OrderByTriggerLimit_mut(rows \ {r}, k - 1) }
                 : r \in { m \in rows : \A o \in rows : m.trigger_utc >= o.trigger_utc } }

\* ORDER BY trigger_utc ASC LIMIT k: every sequence the query may return.  Rows
\* with equal trigger_utc come in an order SQL leaves open.
RECURSIVE OrderByTriggerLimit(_, _)
OrderByTriggerLimit(rows, k) ==
    IF k = 0 \/ rows = {} THEN { <<>> }
    ELSE UNION { { <<r>> \o t : t \in OrderByTriggerLimit(rows \ {r}, k - 1) }
                 : r \in { m \in rows : \A o \in rows : m.trigger_utc <= o.trigger_utc } }

\* The union without the conditions cancelled_utc IS NULL.
_select_due_union_mut(conn, now_utc) ==
    { r \in AllReminders(conn) :
        /\ r.trigger_utc <= now_utc
        /\ r.fired_utc = NULL /\ r.acked_utc = NULL }

\* The rows selected by the union of _select_due_union, before ORDER BY and LIMIT.
_select_due_union(conn, now_utc) ==
    { r \in AllReminders(conn) :
        /\ r.trigger_utc <= now_utc
        /\ r.fired_utc = NULL /\ r.acked_utc = NULL /\ r.cancelled_utc = NULL }

\* The set of lists the query may return.
list_due_reminders(conn, now_utc, limit) ==
    OrderByTriggerLimit(_select_due_union(conn, now_utc), limit)

\* The query without the conditions fired_utc IS NULL and acked_utc IS NULL.
list_next_pending_reminders_mut(conn, now_utc, limit) ==
    OrderByTriggerLimit(
        { r \in AllReminders(conn) : r.trigger_utc > now_utc /\ r.cancelled_utc = NULL },
        limit)

list_next_pending_reminders(conn, now_utc, limit) ==
    OrderByTriggerLimit(
        { r \in AllReminders(conn) :
            /\ r.trigger_utc > now_utc
            /\ r.fired_utc = NULL /\ r.acked_utc = NULL /\ r.cancelled_utc = NULL },
        limit)

\* The ReminderRow, or None.
get_reminder(conn, ref) ==
    LET rows == { r \in AllReminders(conn) : r.ref = ref }
    IN  IF rows = {} THEN None ELSE CHOOSE r \in rows : TRUE

\* An UPDATE that matches no row.
mark_fired_mut(conn, ref, fired_utc) == conn

mark_fired(conn, ref, fired_utc) ==
    IF ref.kind = "rule"
    THEN [conn EXCEPT !.rule_reminders =
            { IF r.id = ref.id THEN [r EXCEPT !.fired_utc = fired_utc] ELSE r : r \in @ }]
    ELSE [conn EXCEPT !.custom_reminders =
            { IF r.id = ref.id THEN [r EXCEPT !.fired_utc = fired_utc] ELSE r : r \in @ }]

\* ack_reminder whose UPDATE lacks the condition acked_utc IS NULL.
ack_reminder_mut(conn, ref, acked_utc) ==
    IF ref.kind = "rule"
    THEN LET upd == { r \in conn.rule_reminders : r.id = ref.id }
         IN  [conn |-> [conn EXCEPT !.rule_reminders =
                          { IF r \in upd THEN [r EXCEPT !.acked_utc = acked_utc] ELSE r
                            : r \in @ }],
              changed |-> Cardinality(upd) = 1]
    ELSE LET upd == { r \in conn.custom_reminders : r.id = ref.id }
         IN  [conn |-> [conn EXCEPT !.custom_reminders =
                          { IF r \in upd THEN [r EXCEPT !.acked_utc = acked_utc] ELSE r
                            : r \in @ }],
              changed |-> Cardinality(upd) = 1]

\* Returns [conn, changed].
ack_reminder(conn, ref, acked_utc) ==
    IF ref.kind = "rule"
    THEN LET upd == { r \in conn.rule_reminders : r.id = ref.id /\ r.acked_utc = NULL }
         IN  [conn |-> [conn EXCEPT !.rule_reminders =
                          { IF r \in upd THEN [r EXCEPT !.acked_utc = acked_utc] ELSE r
                            : r \in @ }],
              changed |-> Cardinality(upd) = 1]
    ELSE LET upd == { r \in conn.custom_reminders : r.id = ref.id /\ r.acked_utc = NULL }
         IN  [conn |-> [conn EXCEPT !.custom_reminders =
                          { IF r \in upd THEN [r EXCEPT !.acked_utc = acked_utc] ELSE r
                            : r \in @ }],
              changed |-> Cardinality(upd) = 1]

\* An UPDATE without the condition fired_utc IS NULL.
cancel_unseen_rule_reminders_mut(conn, unseen_before_utc, cancelled_utc) ==
    LET upd == { r \in conn.rule_reminders :
                   /\ r.cancelled_utc = NULL /\ r.acked_utc = NULL
                   /\ \E o \in conn.occurrences :
                         /\ o.event_id = r.event_id
                         /\ o.start_utc = r.occ_start_utc
                         /\ o.last_seen_utc < unseen_before_utc }
    IN  [conn |-> [conn EXCEPT !.rule_reminders =
                     { IF r \in upd THEN [r EXCEPT !.cancelled_utc = cancelled_utc] ELSE r
                       : r \in @ }],
         n |-> Cardinality(upd)]

\* Returns [conn, n].
cancel_unseen_rule_reminders(conn, unseen_before_utc, cancelled_utc) ==
    LET upd == { r \in conn.rule_reminders :
                   /\ r.cancelled_utc = NULL /\ r.acked_utc = NULL /\ r.fired_utc = NULL
                   /\ \E o \in conn.occurrences :
                         /\ o.event_id = r.event_id
                         /\ o.start_utc = r.occ_start_utc
                         /\ o.last_seen_utc < unseen_before_utc }
    IN  [conn |-> [conn EXCEPT !.rule_reminders =
                     { IF r \in upd THEN [r EXCEPT !.cancelled_utc = cancelled_utc] ELSE r
                       : r \in @ }],
         n |-> Cardinality(upd)]

\* ReminderRef.parse / to_external_id.  A str is the record [chars |-> the
\* sequence of its characters], and the operators on strings below take and
\* return the sequences; of Python's whitespace the space is modelled, and of what int()
\* accepts, an optional sign and decimal digits with surrounding whitespace
\* (not the underscores between digits).
\* str.strip().
RECURSIVE strip(_)
strip(s) ==
    IF s = << >> THEN s
    ELSE IF Head(s) = " " THEN strip(Tail(s))
    ELSE IF s[Len(s)] = " " THEN strip(SubSeq(s, 1, Len(s) - 1))
    ELSE s

\* str.startswith(prefix).
startswith(s, prefix) == Len(s) >= Len(prefix) /\ SubSeq(s, 1, Len(prefix)) = prefix

\* The decimal digits and their values.
DigitOf ==
    [ c \in { "0", "1", "2", "3", "4", "5", "6", "7", "8", "9" } |->
        CHOOSE d \in 0..9 : << "0", "1", "2", "3", "4", "5", "6", "7", "8", "9" >>[d + 1] = c ]

\* int(s): [ok, value]; ok = FALSE is ValueError.
int(s) ==
    LET RECURSIVE Value(_)
        Value(ds) == IF ds = << >> THEN 0
                     ELSE 10 * Value(SubSeq(ds, 1, Len(ds) - 1)) + DigitOf[ds[Len(ds)]]
        t == strip(s)
        signed == t # << >> /\ Head(t) \in { "+", "-" }
        ds == IF signed THEN Tail(t) ELSE t
    IN  IF ds = << >> \/ \E i \in DOMAIN ds : ds[i] \notin DOMAIN DigitOf
        THEN [ok |-> FALSE, value |-> 0]
        ELSE [ok |-> TRUE,
              value |-> IF signed /\ Head(t) = "-" THEN 0 - Value(ds) ELSE Value(ds)]

\* str(n) of an int.
RECURSIVE str(_)
str(n) ==
    IF n < 0 THEN << "-" >> \o str(0 - n)
    ELSE IF n < 10 THEN << CHOOSE c \in DOMAIN DigitOf : DigitOf[c] = n >>
    ELSE str(n \div 10) \o << CHOOSE c \in DOMAIN DigitOf : DigitOf[c] = n % 10 >>

\* The string prefix + str(number); prefix is one of "r:", "c:", "x:".
ExternalId(prefix, number) ==
    [chars |-> << (CASE prefix = "r:" -> "r" [] prefix = "c:" -> "c" [] OTHER -> "x"),
                  ":" >> \o str(number)]

\* A parse that takes every string that does not start with "r:" as the id of
\* a custom reminder.
ReminderRef_parse_mut(value) ==
    LET s == strip(value.chars)
        n == int(SubSeq(s, 3, Len(s)))
    IN  IF ~n.ok THEN None
        ELSE IF startswith(s, << "r", ":" >>) THEN ReminderRef("rule", n.value)
        ELSE ReminderRef("custom", n.value)

\* The ReminderRef, or None when parse raises (ValueError, of parse or of int).
ReminderRef_parse(value) ==
    LET s == strip(value.chars)
        n == int(SubSeq(s, 3, Len(s)))
    IN  IF startswith(s, << "r", ":" >>)
        THEN IF n.ok THEN ReminderRef("rule", n.value) ELSE None
        ELSE IF startswith(s, << "c", ":" >>)
        THEN IF n.ok THEN ReminderRef("custom", n.value) ELSE None
        ELSE None

\* A to_external_id that writes the prefix of a rule reminder for both kinds.
to_external_id_mut(ref) == ExternalId("r:", ref.id)

to_external_id(ref) == ExternalId((IF ref.kind = "rule" THEN "r:" ELSE "c:"), ref.id)

\* ----------------------------------------------------------------- daemon
\* A DaemonState is a record [conn, last_sync_utc, last_spawn_utc,
\* event_cache]; conn is the database as committed.  The methods and the
\* request handler are operators from a DaemonState, the clock reading and
\* what the collaborators do (env) to the outcomes
\*     [S, resp, raised, marked, spawn_called]:
\* the DaemonState left behind, the reply (None when the call raised), whether
\* an exception left the call, the reference marked fired (NoRef: none) and
\* whether spawn_terminal was called for it.

EmptyCache == [ i \in {} |-> None ]

\* self.event_cache = {e.id: e for e in events if e.id}
CacheOf(events) ==
    [ i \in { e.id : e \in { x \in Range(events) : x.id # "" } } |->
        LET idx == CHOOSE k \in DOMAIN events :
                     /\ events[k].id = i
                     /\ \A j \in DOMAIN events : events[j].id = i => j <= k
        IN  events[idx] ]

\* DaemonState(...) on the database conn.
NewDaemonState(conn) ==
    [conn |-> conn, last_sync_utc |-> 0, last_spawn_utc |-> 0, event_cache |-> EmptyCache]

ZeroStats ==
    [seen_from_gcal |-> 0, occ_upserted |-> 0, occ_changed |-> 0, rule_changed |-> 0,
     rule_cancelled_unseen |-> 0, skipped_past |-> 0]

\* A test that lets a candidate through whose trigger is the start of the pass.
SkippedPast_mut(trig_utc, started_utc) == trig_utc < started_utc

\* The test of sync that skips a candidate whose trigger has passed.
SkippedPast(trig_utc, started_utc) == trig_utc <= started_utc

\* sync works on st = [conn, stats]: the database and the counters of the
\* pass.  Each step of the pass is an operator from st to st.

\* The count of ensure_rule_reminder's return value r.
RuleEnsured(stats, r) ==
    [conn |-> r.conn,
     stats |-> [stats EXCEPT !.rule_changed = IF r.ret THEN @ + 1 ELSE @]]

\* The body of the loop over the rule specs of one event.
SyncSpec(st, e, start_utc, spec, trig_utc, started_utc) ==
    IF SkippedPast(trig_utc, started_utc)
    THEN [st EXCEPT !.stats.skipped_past = @ + 1]
    ELSE RuleEnsured(st.stats,
                     ensure_rule_reminder(st.conn, e.id, start_utc, spec.rule_name,
                                          trig_utc, spec.requires_ack, started_utc))

\* The loop over the rule specs of one event.
RECURSIVE SyncSpecs(_, _, _, _, _, _)
SyncSpecs(st, e, start_utc, specs, i, started_utc) ==
    IF i > Len(specs) THEN st
    ELSE SyncSpecs(SyncSpec(st, e, start_utc, specs[i],
                            to_utc_epoch_seconds(specs[i].trigger_local), started_utc),
                   e, start_utc, specs, i + 1, started_utc)

\* A pass that derives the rules of dropped occurrences too.
DeriveRules_mut(st, e, start_utc, occ, started_utc) ==
    IF occ = None THEN st
    ELSE SyncSpecs(st, e, start_utc, compute_rule_specs(e.start, e.end, e.all_day),
                   1, started_utc)

\* After the upsert of the occurrence: occ is the row read back.
DeriveRules(st, e, start_utc, occ, started_utc) ==
    IF occ = None \/ occ.dropped # 0 THEN st
    ELSE SyncSpecs(st, e, start_utc, compute_rule_specs(e.start, e.end, e.all_day),
                   1, started_utc)

\* The counts of upsert_occurrence's return value u, then get_occurrence.
OccurrenceUpserted(stats, e, start_utc, u, started_utc) ==
    DeriveRules([conn |-> u.conn,
                 stats |-> [stats EXCEPT
                              !.seen_from_gcal = @ + 1,
                              !.occ_upserted = IF u.inserted \/ u.changed THEN @ + 1 ELSE @,
                              !.occ_changed = IF u.changed THEN @ + 1 ELSE @]],
                e, start_utc, get_occurrence(u.conn, e.id, start_utc), started_utc)

\* The body of the loop over the fetched events.
SyncEvent(st, e, start_utc, started_utc) ==
    IF e.id = "" THEN st
    ELSE OccurrenceUpserted(
             st.stats, e, start_utc,
             upsert_occurrence(st.conn, e.id, start_utc, to_utc_epoch_seconds(e.end),
                               (IF e.all_day THEN 1 ELSE 0), started_utc),
             started_utc)

\* The loop over the fetched events.
RECURSIVE SyncEvents(_, _, _, _)
SyncEvents(st, events, i, started_utc) ==
    IF i > Len(events) THEN st
    ELSE SyncEvents(SyncEvent(st, events[i], to_utc_epoch_seconds(events[i].start),
                              started_utc),
                    events, i + 1, started_utc)

\* The count of cancel_unseen_rule_reminders' return value c.
UnseenCancelled(stats, c) ==
    [conn |-> c.conn, stats |-> [stats EXCEPT !.rule_cancelled_unseen = c.n]]

\* A sweep that also deletes the occurrences it finds unseen.
Sweep_mut(st, started_utc) ==
    LET c == cancel_unseen_rule_reminders(st.conn, started_utc, started_utc)
    IN  UnseenCancelled(st.stats,
            [c EXCEPT !.conn.occurrences =
                { o \in @ : ~(o.last_seen_utc < started_utc) }])

\* The sweep at the end of the pass.
Sweep(st, started_utc) ==
    UnseenCancelled(st.stats, cancel_unseen_rule_reminders(st.conn, started_utc, started_utc))

\* The database work of one pass over the fetched events: [conn, stats]; conn
\* is what the commit at the end of the pass makes durable.
SyncPass(conn, events, started_utc) ==
    Sweep(SyncEvents([conn |-> conn, stats |-> ZeroStats], events, 1, started_utc),
          started_utc)

Outcome(S, resp, raised, marked, spawn_called) ==
    [S |-> S, resp |-> resp, raised |-> raised, marked |-> marked,
     spawn_called |-> spawn_called]

\* DaemonState.sync.  env.fetch_ok: list_events returns env.events; otherwise
\* it raises, before anything is written.  resp is the dict of counters.
Synced(S, now_utc, events, p) ==
    Outcome([S EXCEPT !.conn = p.conn, !.last_sync_utc = now_utc,
                      !.event_cache = CacheOf(events)],
            p.stats, FALSE, NoRef, FALSE)

\* A sync that runs and commits the sweep before it fetches.
sync_mut(S, now_utc, env) ==
    IF ~env.fetch_ok
    THEN Outcome([S EXCEPT !.conn = Sweep([conn |-> S.conn, stats |-> ZeroStats],
                                          now_utc).conn],
                 None, TRUE, NoRef, FALSE)
    ELSE Synced(S, now_utc, env.events, SyncPass(S.conn, env.events, now_utc))

sync(S, now_utc, env) ==
    IF ~env.fetch_ok
    THEN Outcome(S, None, TRUE, NoRef, FALSE)
    ELSE Synced(S, now_utc, env.events, SyncPass(S.conn, env.events, now_utc))

\* What the presenter can do when handed a reminder: play_sound ends well, ends
\* with a non-zero exit status (ignored, check=False) or raises; spawn_terminal
\* ends well or raises.
PresenterOutcomes == { "ok", "sound_exit_nonzero", "sound_raises", "spawn_raises" }

\* DaemonState.spawn_reminder: whether spawn_terminal was called, and whether
\* the call raised.
spawn_reminder(pres) ==
    [spawn_called |-> pres # "sound_raises",
     raised |-> pres \in { "sound_raises", "spawn_raises" }]

\* A throttle window of no length.
Throttled_mut(ignore_throttle, last_spawn, now_utc) ==
    (~ignore_throttle) /\ last_spawn # 0 /\ (now_utc - last_spawn < 0)

\* A throttle test that does not look at ignore_throttle.
Throttled_mut2(ignore_throttle, last_spawn, now_utc) ==
    last_spawn # 0 /\ (now_utc - last_spawn < SpawnThrottleS)

\* The throttle test of fire_one_due.
Throttled(ignore_throttle, last_spawn, now_utc) ==
    (~ignore_throttle) /\ last_spawn # 0 /\ (now_utc - last_spawn < SpawnThrottleS)

\* A fire that sets last_spawn_utc before it calls spawn_reminder.
Present_mut(S, now_utc, ref, conn, p) ==
    IF p.raised
    THEN Outcome([S EXCEPT !.conn = conn, !.last_spawn_utc = now_utc],
                 None, TRUE, ref, p.spawn_called)
    ELSE Outcome([S EXCEPT !.conn = conn, !.last_spawn_utc = now_utc],
                 to_external_id(ref), FALSE, ref, p.spawn_called)

\* After mark_fired and commit left the database conn: spawn_reminder, then
\* self.last_spawn_utc = now_utc; resp is the external id returned.
Present(S, now_utc, ref, conn, p) ==
    IF p.raised
    THEN Outcome([S EXCEPT !.conn = conn], None, TRUE, ref, p.spawn_called)
    ELSE Outcome([S EXCEPT !.conn = conn, !.last_spawn_utc = now_utc],
                 to_external_id(ref), FALSE, ref, p.spawn_called)

\* mark_fired, commit, spawn_reminder, self.last_spawn_utc = now_utc.
FireRow(S, now_utc, r, env) ==
    Present(S, now_utc, r.ref, mark_fired(S.conn, r.ref, now_utc), spawn_reminder(env.pres))

\* DaemonState.fire_one_due: the possible outcomes; resp is None when nothing
\* is fired.
fire_one_due(S, now_utc, ignore_throttle, env) ==
    IF Throttled(ignore_throttle, S.last_spawn_utc, now_utc)
    THEN { Outcome(S, None, FALSE, NoRef, FALSE) }
    ELSE { IF due = <<>>
           THEN Outcome(S, None, FALSE, NoRef, FALSE)
           ELSE FireRow(S, now_utc, due[1], env)
           : due \in list_due_reminders(S.conn, now_utc, 1) }

\* A fire_one_any that does not try fire_one_due first.
fire_one_any_mut(S, now_utc, env) ==
    { IF nxt = <<>>
      THEN Outcome(S, None, FALSE, NoRef, FALSE)
      ELSE FireRow(S, now_utc, nxt[1], env)
      : nxt \in list_next_pending_reminders(S.conn, now_utc, 1) }

\* DaemonState.fire_one_any
fire_one_any(S, now_utc, env) ==
    UNION { IF o.raised \/ o.resp # None THEN { o }
            ELSE { IF nxt = <<>>
                   THEN Outcome(S, None, FALSE, NoRef, FALSE)
                   ELSE FireRow(S, now_utc, nxt[1], env)
                   : nxt \in list_next_pending_reminders(S.conn, now_utc, 1) }
            : o \in fire_one_due(S, now_utc, TRUE, env) }

Error(S, error) == Outcome(S, [ok |-> FALSE, error |-> error], FALSE, NoRef, FALSE)

\* One entry of the reply of cmd == "due".
Summary(r) ==
    [id |-> to_external_id(r.ref), kind |-> r.ref.kind, event_id |-> r.event_id,
     occ_start_utc |-> r.occ_start_utc, trigger_utc |-> r.trigger_utc,
     requires_ack |-> (r.requires_ack # 0), rule_name |-> r.rule_name]

\* The reply resp to a call that ended with outcome o, unless it raised.
Reply(o, resp) == IF o.raised THEN o ELSE [o EXCEPT !.resp = resp]

\* The reply to fire_next and test: o is the outcome of fire_one_due or
\* fire_one_any.
FireReply(o, error) ==
    IF o.raised THEN o
    ELSE IF o.resp = None
    THEN [o EXCEPT !.resp = [ok |-> FALSE, error |-> error]]
    ELSE [o EXCEPT !.resp = [ok |-> TRUE, reminder_id |-> o.resp]]

\* DaemonState.refresh_events, the fetch done: the cache is replaced.
refresh_events(S, env) == [S EXCEPT !.event_cache = CacheOf(env.events)]

\* The first limit of the events that have an id, as the reply lists them.
RECURSIVE EventDicts(_, _)
EventDicts(events, limit) ==
    IF events = <<>> \/ limit = 0 THEN <<>>
    ELSE IF Head(events).id = "" THEN EventDicts(Tail(events), limit)
    ELSE << [id |-> Head(events).id, start |-> Head(events).start,
             end |-> Head(events).end, all_day |-> Head(events).all_day] >>
         \o EventDicts(Tail(events), limit - 1)

\* cmd == "next" with a limit of at least 1: refresh_events fetches the calendar; a
\* fetch that fails raises.
NextEvents(S, limit, env) ==
    IF ~env.fetch_ok THEN Outcome(S, None, TRUE, NoRef, FALSE)
    ELSE Outcome(refresh_events(S, env),
                 [ok |-> TRUE, events |-> EventDicts(env.events, limit)],
                 FALSE, NoRef, FALSE)

\* The reply of cmd == "get_reminder" for reminder r of occurrence occ; S is
\* the DaemonState after get_event.
ReminderReply(S, r, occ) ==
    Outcome(S,
            [ok |-> TRUE,
             reminder |-> [id |-> to_external_id(r.ref), kind |-> r.ref.kind,
                           rule_name |-> r.rule_name, event_id |-> r.event_id,
                           occ_start_utc |-> r.occ_start_utc, trigger_utc |-> r.trigger_utc,
                           requires_ack |-> (r.requires_ack # 0), fired_utc |-> r.fired_utc,
                           acked_utc |-> r.acked_utc, cancelled_utc |-> r.cancelled_utc],
             event |-> [id |-> r.event_id, found |-> r.event_id \in DOMAIN S.event_cache,
                        start |-> occ.start_utc, end |-> occ.end_utc,
                        all_day |-> (occ.all_day # 0)]],
            FALSE, NoRef, FALSE)

\* cmd == "get_reminder", the reference parsed: r is what get_reminder returns.
\* get_event fetches the calendar when the event is not in the cache; a fetch
\* that fails raises.
GetReminder(S, r, env) ==
    IF r = None THEN Error(S, "reminder_not_found")
    ELSE IF get_occurrence(S.conn, r.event_id, r.occ_start_utc) = None
    THEN Error(S, "occurrence_not_found")
    ELSE IF r.event_id \in DOMAIN S.event_cache
    THEN ReminderReply(S, r, get_occurrence(S.conn, r.event_id, r.occ_start_utc))
    ELSE IF ~env.fetch_ok THEN Outcome(S, None, TRUE, NoRef, FALSE)
    ELSE ReminderReply(refresh_events(S, env), r,
                       get_occurrence(S.conn, r.event_id, r.occ_start_utc))

\* cmd == "ack_reminder", the reference parsed: a is what ack_reminder returns.
Acked(S, a) ==
    Outcome([S EXCEPT !.conn = a.conn], [ok |-> TRUE, changed |-> a.changed],
            FALSE, NoRef, FALSE)

\* cmd == "drop_occurrence": d is what drop_occurrence returns.
Dropped(S, d) ==
    Outcome([S EXCEPT !.conn = d.conn],
            [ok |-> TRUE, cancelled_rule |-> d.n_rule, cancelled_custom |-> d.n_custom],
            FALSE, NoRef, FALSE)

\* A snooze that leaves out ack_reminder on the source.
Snoozed_mut(S, now_utc, ref, n) ==
    Outcome([S EXCEPT !.conn = n.conn],
            [ok |-> TRUE, new_id |-> to_external_id(ReminderRef("custom", n.id))],
            FALSE, NoRef, FALSE)

\* cmd == "snooze", the source reminder found: n is what insert_custom_reminder
\* returns; then ack_reminder on the source.
Snoozed(S, now_utc, ref, n) ==
    Outcome([S EXCEPT !.conn = ack_reminder(n.conn, ref, now_utc).conn],
            [ok |-> TRUE, new_id |-> to_external_id(ReminderRef("custom", n.id))],
            FALSE, NoRef, FALSE)

Snooze(S, now_utc, trigger_utc, ref, src) ==
    IF src = None THEN Error(S, "reminder_not_found")
    ELSE Snoozed(S, now_utc, ref,
                 insert_custom_reminder(S.conn, src.event_id, src.occ_start_utc,
                                        trigger_utc, 1, now_utc))

\* cmd == "test" after the sync it makes when there was none: s is its outcome.
TestFire(s, now_utc, env) ==
    IF s.raised THEN { s }
    ELSE { FireReply(o, "no_reminders") : o \in fire_one_any(s.S, now_utc, env) }

\* The outcome of a sync that is not due.
NoSync(S) == Outcome(S, None, FALSE, NoRef, FALSE)

\* _handle_request: the possible outcomes of one request.
_handle_request(S, now_utc, req, env) ==
    LET ref == ReminderRef_parse(req.id) IN
    CASE req.cmd = "ping" ->
           { Outcome(S, [ok |-> TRUE, now_utc |-> now_utc], FALSE, NoRef, FALSE) }
      [] req.cmd = "sync" ->
           { Reply(sync(S, now_utc, env), [ok |-> TRUE]) }
      [] req.cmd = "next" ->
           IF req.limit < 1 THEN { Error(S, "limit_must_be_positive") }
           ELSE { NextEvents(S, req.limit, env) }
      [] req.cmd = "due" ->
           IF req.limit < 1 THEN { Error(S, "limit_must_be_positive") }
           ELSE { Outcome(S, [ok |-> TRUE,
                              reminders |-> [ i \in DOMAIN due |-> Summary(due[i]) ]],
                          FALSE, NoRef, FALSE)
                  : due \in list_due_reminders(S.conn, now_utc, req.limit) }
      [] req.cmd = "fire_next" ->
           { FireReply(o, "no_due_reminders") : o \in fire_one_due(S, now_utc, TRUE, env) }
      [] req.cmd = "get_reminder" ->
           IF ref = None THEN { Error(S, "invalid_reminder_id") }
           ELSE { GetReminder(S, get_reminder(S.conn, ref), env) }
      [] req.cmd = "ack_reminder" ->
           IF ref = None THEN { Error(S, "invalid_reminder_id") }
           ELSE { Acked(S, ack_reminder(S.conn, ref, now_utc)) }
      [] req.cmd = "drop_occurrence" ->
           { Dropped(S, drop_occurrence(S.conn, req.event_id, req.occ_start_utc, now_utc)) }
      [] req.cmd = "snooze" ->
           IF req.trigger_utc <= now_utc THEN { Error(S, "trigger_in_past") }
           ELSE IF ref = None
           THEN { Error(S, "invalid_reminder_id") }
           ELSE { Snooze(S, now_utc, req.trigger_utc, ref,
                         get_reminder(S.conn, ref)) }
      [] req.cmd = "test" ->
           TestFire((IF S.last_sync_utc = 0 THEN sync(S, now_utc, env) ELSE NoSync(S)),
                    now_utc, env)
      [] OTHER -> { Error(S, "unknown_cmd") }

\* A scheduler tick that syncs and never fires.
TickFire_mut(s, now_utc, env) == { s }

\* The scheduler tick after its sync: s is the outcome of the sync.
TickFire(s, now_utc, env) ==
    IF s.raised THEN { s } ELSE fire_one_due(s.S, now_utc, FALSE, env)

\* The scheduler tick of the loop of run(): the periodic sync when it is due,
\* then fire_one_due(important=False, ignore_throttle=False).
SchedulerTick(S, now_utc, env) ==
    TickFire((IF now_utc - S.last_sync_utc >= SyncIntervalS THEN sync(S, now_utc, env)
              ELSE NoSync(S)),
             now_utc, env)

\* ------------------------------------------------------------ the process
VARIABLES
    up,              \* the daemon process is running (inside the loop of run)
    clock,           \* the host's wall clock, what _now_utc() returns
    db,              \* the committed content of reminder.db
    last_sync_utc,   \* DaemonState.last_sync_utc
    last_spawn_utc,  \* DaemonState.last_spawn_utc
    event_cache,     \* DaemonState.event_cache: id -> Event
    calendar,        \* the results list_events can return in this behaviour
    handed,          \* history: bag of the references handed to spawn_reminder
    tick_last,       \* history: the latest scheduler tick that marked a reminder
    returned,        \* what the latest direct call of a function of db.py returned
    fetch_failed     \* history: the latest step began a reconciliation pass whose
                     \* calendar fetch raised

vars == << up, clock, db, last_sync_utc, last_spawn_utc, event_cache, calendar,
           handed, tick_last, returned, fetch_failed >>

\* The DaemonState of the running process.
State ==
    [conn |-> db, last_sync_utc |-> last_sync_utc, last_spawn_utc |-> last_spawn_utc,
     event_cache |-> event_cache]

\* The collaborators' part in a call.
Env(events, fetch_ok, pres) == [events |-> events, fetch_ok |-> fetch_ok, pres |-> pres]
NoEnv == Env(<<>>, TRUE, "ok")
FetchEnvs ==
    { Env(events, TRUE, "ok") : events \in calendar } \cup { Env(<<>>, FALSE, "ok") }
PresEnvs == { Env(<<>>, TRUE, pres) : pres \in PresenterOutcomes }
WithPresenter(envs) == { [env EXCEPT !.pres = pres] : env \in envs, pres \in PresenterOutcomes }

\* The outcome o of a call becomes the state.  An exception that leaves the
\* call ends run(): the DaemonState is gone, the committed database stays.
Apply(o) ==
    /\ db' = o.S.conn
    /\ handed' = IF o.marked = NoRef THEN handed ELSE handed (+) SetToBag({ o.marked })
    /\ IF o.raised
       THEN /\ up' = FALSE
            /\ last_sync_utc' = 0
            /\ last_spawn_utc' = 0
            /\ event_cache' = EmptyCache
       ELSE /\ up' = TRUE
            /\ last_sync_utc' = o.S.last_sync_utc
            /\ last_spawn_utc' = o.S.last_spawn_utc
            /\ event_cache' = o.S.event_cache

\* tick_last once the process that made the tick is gone.
Stale(o) == IF o.raised THEN [tick_last EXCEPT !.live = FALSE] ELSE tick_last

\* Whether a step that calls sync() when attempted holds began a pass whose
\* list_events raised.
FetchFails(attempted, env) == attempted /\ ~env.fetch_ok

\* The outcomes outs of a call, each with whether the call began a pass whose
\* fetch failed.
Tagged(outs, failed) == { [o |-> o, failed |-> failed] : o \in outs }

\* run(): a new DaemonState on the existing database, then the initial sync.
Run(env) ==
    /\ ~up
    /\ Apply(sync(NewDaemonState(db), clock, env))
    /\ tick_last' = [tick_last EXCEPT !.live = FALSE]
    /\ fetch_failed' = FetchFails(TRUE, env)
    /\ UNCHANGED << clock, calendar, returned >>

\* KeyboardInterrupt in the loop.
Stop ==
    /\ up
    /\ up' = FALSE
    /\ last_sync_utc' = 0
    /\ last_spawn_utc' = 0
    /\ event_cache' = EmptyCache
    /\ tick_last' = [tick_last EXCEPT !.live = FALSE]
    /\ fetch_failed' = FALSE
    /\ UNCHANGED << clock, db, calendar, handed, returned >>

\* Time passes.
Advance ==
    /\ \E k \in 1..MaxInstants : clock < Instant(k) /\ clock' = Instant(k)
    /\ fetch_failed' = FALSE
    /\ UNCHANGED << up, db, last_sync_utc, last_spawn_utc, event_cache, calendar,
                    handed, tick_last, returned >>

\* One scheduler tick.
Tick ==
    /\ up
    /\ \E x \in UNION { Tagged(SchedulerTick(State, clock, env),
                               FetchFails(clock - last_sync_utc >= SyncIntervalS, env))
                        : env \in WithPresenter(IF clock - last_sync_utc >= SyncIntervalS
                                                THEN FetchEnvs ELSE { NoEnv }) } :
         /\ Apply(x.o)
         /\ tick_last' =
              IF x.o.marked = NoRef THEN Stale(x.o)
              ELSE [n |-> tick_last.n + 1, t |-> clock, live |-> ~x.o.raised]
         /\ fetch_failed' = x.failed
    /\ UNCHANGED << clock, calendar, returned >>

\* The external ids a client sends: those of the rows of either table, one id
\* past the last row of each, and a reference with an unknown prefix.
Rids ==
    { ExternalId("r:", i) : i \in 1..NextId(db.rule_reminders) } \cup
    { ExternalId("c:", i) : i \in 1..NextId(db.custom_reminders) } \cup
    { ExternalId("x:", 1) }

\* The occurrence keys a client sends: those of the calendar's events, and the
\* id of an event that was never there.
CalendarEvents == { e \in UNION { Range(events) : events \in calendar } : e.id # "" }
EventIds == { e.id : e \in CalendarEvents } \cup { "b" }
OccStarts == { to_utc_epoch_seconds(e.start) : e \in CalendarEvents }

SnoozeTargets == { Instant(0) + 1, Instant(1) + 1 }

\* The requests of each command that clients send.
CmdPing == { [cmd |-> "ping"] }
CmdSync == { [cmd |-> "sync"] }
CmdNext == { [cmd |-> "next", limit |-> limit] : limit \in 0..MaxLimit }
CmdDue == { [cmd |-> "due", limit |-> limit] : limit \in 0..MaxLimit }
CmdFireNext == { [cmd |-> "fire_next"] }
CmdGet == { [cmd |-> "get_reminder", id |-> rid] : rid \in Rids }
CmdAck == { [cmd |-> "ack_reminder", id |-> rid] : rid \in Rids }
CmdDrop ==
    { [cmd |-> "drop_occurrence", event_id |-> event_id, occ_start_utc |-> occ_start_utc]
      : event_id \in EventIds, occ_start_utc \in OccStarts }
CmdSnooze ==
    IF Cardinality(db.custom_reminders) < MaxCustom
    THEN { [cmd |-> "snooze", id |-> rid, trigger_utc |-> trigger_utc]
           : rid \in Rids, trigger_utc \in SnoozeTargets }
    ELSE {}
CmdTest == { [cmd |-> "test"] }
CmdUnknown == { [cmd |-> "list_pending"] }
\* What the pending command of the command line sends.
CmdPending == { [cmd |-> "pending", limit |-> limit] : limit \in 1..MaxLimit }

Requests ==
    CmdSync \cup CmdDue \cup CmdFireNext \cup CmdGet \cup CmdAck \cup CmdDrop \cup CmdSnooze
    \cup CmdTest \cup CmdUnknown \cup CmdPending

\* What the collaborators may do while req is handled.
EnvsOf(req) ==
    CASE req.cmd = "sync" -> FetchEnvs
      [] req.cmd = "next" -> FetchEnvs
      [] req.cmd = "get_reminder" -> FetchEnvs
      [] req.cmd = "fire_next" -> PresEnvs
      [] req.cmd = "test" ->
           WithPresenter(IF last_sync_utc = 0 THEN FetchEnvs ELSE { NoEnv })
      [] OTHER -> { NoEnv }

\* The requests whose handling begins with a call of sync().
SyncsFirst(req) == req.cmd = "sync" \/ (req.cmd = "test" /\ last_sync_utc = 0)

\* A request is handled.
Request(reqs) ==
    /\ up
    /\ \E req \in reqs :
         \E x \in UNION { Tagged(_handle_request(State, clock, req, env),
                                  FetchFails(SyncsFirst(req), env))
                           : env \in EnvsOf(req) } :
            /\ Apply(x.o)
            /\ tick_last' = Stale(x.o)
            /\ fetch_failed' = x.failed
    /\ UNCHANGED << clock, calendar, returned >>

\* Before the daemon is first started, on a new database.
InitOn(results) ==
    /\ up = FALSE
    /\ clock = StartClock
    /\ db = EmptyDb
    /\ last_sync_utc = 0
    /\ last_spawn_utc = 0
    /\ event_cache = EmptyCache
    /\ calendar = results
    /\ handed = EmptyBag
    /\ tick_last = [n |-> 0, t |-> 0, live |-> FALSE]
    /\ returned = None
    /\ fetch_failed = FALSE

Init == InitOn(CalendarResults)

Next ==
    \/ \E env \in FetchEnvs : Run(env)
    \/ Stop
    \/ Advance
    \/ Tick
    \/ Request(Requests)

\* The daemon and its clients, the calendar holding event "a".
Spec == Init /\ [][Next]_vars

\* The daemon and its clients, without the snooze command and with the ping
\* and next commands, the calendar holding event "p", whose two reminders are
\* due at the same instant.
InitPair == InitOn(PairCalendarResults)

NextPair ==
    \/ \E env \in FetchEnvs : Run(env)
    \/ Stop
    \/ Advance
    \/ Tick
    \/ Request((Requests \ CmdSnooze) \cup CmdPing \cup CmdNext)

SpecPair == InitPair /\ [][NextPair]_vars

\* The daemon and its clients, with the sync, fire_next, ack_reminder and
\* drop_occurrence commands, the calendar holding event "w", which has all
\* four rule reminders ahead when the daemon is first started.
InitWeek == InitOn(WeekCalendarResults)

NextWeek ==
    \/ \E env \in FetchEnvs : Run(env)
    \/ Stop
    \/ Advance
    \/ Tick
    \/ Request(CmdSync \cup CmdFireNext \cup CmdAck \cup CmdDrop)

SpecWeek == InitWeek /\ [][NextWeek]_vars

\* The daemon and its clients, with the fire_next, test and snooze commands,
\* the calendar holding event "p": two rule reminders with one trigger, and a
\* custom reminder before or after them.
NextFire ==
    \/ \E env \in FetchEnvs : Run(env)
    \/ Stop
    \/ Advance
    \/ Tick
    \/ Request(CmdFireNext \cup CmdTest \cup CmdSnooze)

SpecFire == InitPair /\ [][NextFire]_vars

\* The daemon while its loop keeps iterating: no exception leaves a handler or
\* a tick (the calendar fetches and the presenter succeed) and nobody
\* interrupts it.  The loop waits at most one second for a connection before
\* each tick, so there is a tick at every clock reading modelled.
LiveInstants == 4

\* One iteration of the loop of run() that no exception leaves: the scheduler
\* tick, and time passes while the loop waits for a connection, which a
\* Request step then serves.
Iterate ==
    /\ up
    /\ \E env \in WithPresenter(IF clock - last_sync_utc >= SyncIntervalS
                                THEN FetchEnvs ELSE { NoEnv }) :
         \E o \in SchedulerTick(State, clock, env) :
            /\ ~o.raised
            /\ Apply(o)
            /\ tick_last' = IF o.marked = NoRef THEN tick_last
                            ELSE [n |-> tick_last.n + 1, t |-> clock, live |-> TRUE]
    /\ fetch_failed' = FALSE
    /\ clock' = IF \E k \in 1..LiveInstants : clock < Instant(k)
                THEN Instant(CHOOSE k \in 1..LiveInstants :
                               clock < Instant(k) /\ clock >= Instant(k - 1))
                ELSE clock
    /\ UNCHANGED << calendar, returned >>

NextLive ==
    \/ \E env \in FetchEnvs : Run(env) /\ up'
    \/ Iterate
    \/ Request(CmdSync \cup CmdSnooze \cup CmdAck) /\ up'

\* The loop iterates again and again.
SpecLive == InitPair /\ [][NextLive]_vars /\ WF_vars(Iterate)

\* ------------------------------------------------- the store called directly
\* The queries of db.py on databases drawn from a bounded family: at most
\* MaxRows rows in each reminder table, of one occurrence.
NoLife == [fired_utc |-> NULL, acked_utc |-> NULL, cancelled_utc |-> NULL]
DrawnLifecycles ==
    { NoLife, [NoLife EXCEPT !.fired_utc = Instant(0)],
      [NoLife EXCEPT !.acked_utc = Instant(0)],
      [NoLife EXCEPT !.cancelled_utc = Instant(0)] }
DrawnTriggers == { Instant(1), Instant(2) }
RuleNames == << "week_before", "day_before", "six_am", "minus_30m" >>
DrawnOccurrence ==
    [event_id |-> EventA1.id, start_utc |-> to_utc_epoch_seconds(EventA1.start),
     end_utc |-> to_utc_epoch_seconds(EventA1.end), all_day |-> 0, dropped |-> 0,
     last_seen_utc |-> Instant(0)]
DrawnShapes(n) == [ 1..n -> DrawnTriggers \X DrawnLifecycles ]
DrawnRuleTable(f) ==
    { [id |-> i, event_id |-> DrawnOccurrence.event_id,
       occ_start_utc |-> DrawnOccurrence.start_utc, rule_name |-> RuleNames[i],
       trigger_utc |-> f[i][1], requires_ack |-> (i + 1) % 2,
       acked_utc |-> f[i][2].acked_utc, fired_utc |-> f[i][2].fired_utc,
       cancelled_utc |-> f[i][2].cancelled_utc] : i \in DOMAIN f }
DrawnCustomTable(f) ==
    { [id |-> i, event_id |-> DrawnOccurrence.event_id,
       occ_start_utc |-> DrawnOccurrence.start_utc,
       trigger_utc |-> f[i][1], requires_ack |-> 1,
       acked_utc |-> f[i][2].acked_utc, fired_utc |-> f[i][2].fired_utc,
       cancelled_utc |-> f[i][2].cancelled_utc] : i \in DOMAIN f }
DrawnStores ==
    { [occurrences |-> { DrawnOccurrence }, rule_reminders |-> DrawnRuleTable(f),
       custom_reminders |-> DrawnCustomTable(g)] :
        f \in UNION { DrawnShapes(n) : n \in 0..MaxRows },
        g \in UNION { DrawnShapes(n) : n \in 0..MaxRows } }

\* A client of db.py calls list_due_reminders(conn, _now_utc(), limit).
ListDue(limit) ==
    /\ \E rows \in list_due_reminders(db, clock, limit) :
         returned' = [limit |-> limit, rows |-> rows]
    /\ UNCHANGED << up, clock, db, last_sync_utc, last_spawn_utc, event_cache, calendar,
                    handed, tick_last, fetch_failed >>

InitStore ==
    /\ up = FALSE
    /\ clock \in { Instant(k) : k \in 0..MaxInstants }
    /\ db \in DrawnStores
    /\ last_sync_utc = 0
    /\ last_spawn_utc = 0
    /\ event_cache = EmptyCache
    /\ calendar = { <<>> }
    /\ handed = EmptyBag
    /\ tick_last = [n |-> 0, t |-> 0, live |-> FALSE]
    /\ returned = None
    /\ fetch_failed = FALSE

NextStore == \E limit \in 0..MaxLimit : ListDue(limit)

SpecStore == InitStore /\ [][NextStore]_vars

\* compute_rule_specs of reminders.py on starts drawn from a bounded family:
\* times of day 8 around midnight, around 06:00 and later, naive or in one of
\* three zones; ends one hour or one day after the start.
RuleWalls ==
    { 8 * 24 * 3600 + t : t \in { 0, 29 * 60, 6 * 3600 - 1, 6 * 3600, 6 * 3600 + 900,
                                  12 * 3600, 24 * 3600 - 1 } }
RuleOffsets == { NoTz, 0, LocalTzOffset, 0 - 5 * 3600 }
RuleStarts == { [wall |-> w, off |-> f] : w \in RuleWalls, f \in RuleOffsets }
RuleEnds(start) == { [start EXCEPT !.wall = @ + 3600], [start EXCEPT !.wall = @ + 24 * 3600] }

\* A client of reminders.py calls compute_rule_specs.
Derive(event_start_local, event_end_local, all_day) ==
    /\ returned' = [start |-> event_start_local, end |-> event_end_local,
                    all_day |-> all_day,
                    specs |-> compute_rule_specs(event_start_local, event_end_local,
                                                 all_day)]
    /\ UNCHANGED << up, clock, db, last_sync_utc, last_spawn_utc, event_cache, calendar,
                    handed, tick_last, fetch_failed >>

InitRules == InitOn({ <<>> })

NextRules ==
    \E start \in RuleStarts : \E end \in RuleEnds(start) : \E all_day \in BOOLEAN :
       Derive(start, end, all_day)

SpecRules == InitRules /\ [][NextRules]_vars

\* drop_occurrence of db.py on databases drawn from a bounded family: two
\* occurrences, at most MaxDropRules rule reminders and MaxCustom custom
\* reminders, each of either occurrence and in any lifecycle state.
MaxDropRules == 3
OtherOccurrence ==
    [event_id |-> "b", start_utc |-> to_utc_epoch_seconds(EventP.start),
     end_utc |-> to_utc_epoch_seconds(EventP.end), all_day |-> 0, dropped |-> 0,
     last_seen_utc |-> Instant(0)]
DropOccurrences == { DrawnOccurrence, OtherOccurrence }
DropShapes(n) == [ 1..n -> DropOccurrences \X DrawnLifecycles ]
DropRuleTable(f) ==
    { [id |-> i, event_id |-> f[i][1].event_id, occ_start_utc |-> f[i][1].start_utc,
       rule_name |-> RuleNames[i], trigger_utc |-> Instant(2),
       requires_ack |-> (i + 1) % 2,
       acked_utc |-> f[i][2].acked_utc, fired_utc |-> f[i][2].fired_utc,
       cancelled_utc |-> f[i][2].cancelled_utc] : i \in DOMAIN f }
DropCustomTable(f) ==
    { [id |-> i, event_id |-> f[i][1].event_id, occ_start_utc |-> f[i][1].start_utc,
       trigger_utc |-> Instant(2), requires_ack |-> 1,
       acked_utc |-> f[i][2].acked_utc, fired_utc |-> f[i][2].fired_utc,
       cancelled_utc |-> f[i][2].cancelled_utc] : i \in DOMAIN f }
DropStores ==
    { [occurrences |-> DropOccurrences, rule_reminders |-> DropRuleTable(f),
       custom_reminders |-> DropCustomTable(g)] :
        f \in UNION { DropShapes(n) : n \in 0..MaxDropRules },
        g \in UNION { DropShapes(n) : n \in 0..MaxCustom } }

\* The keys a client passes: those of the two occurrences, and the key of an
\* occurrence that is not in the database.
DropKeys ==
    { << o.event_id, o.start_utc >> : o \in DropOccurrences } \cup
    { << OtherOccurrence.event_id, DrawnOccurrence.start_utc >> }

\* A client of db.py calls drop_occurrence(conn, event_id, occ_start_utc,
\* _now_utc()) and commits.
Drop(event_id, occ_start_utc) ==
    /\ LET d == drop_occurrence(db, event_id, occ_start_utc, clock)
       IN  /\ db' = d.conn
           /\ returned' = [event_id |-> event_id, occ_start_utc |-> occ_start_utc,
                           before |-> db, n_rule |-> d.n_rule, n_custom |-> d.n_custom]
    /\ UNCHANGED << up, clock, last_sync_utc, last_spawn_utc, event_cache, calendar,
                    handed, tick_last, fetch_failed >>

InitDrop ==
    /\ up = FALSE
    /\ clock = Instant(1)
    /\ db \in DropStores
    /\ last_sync_utc = 0
    /\ last_spawn_utc = 0
    /\ event_cache = EmptyCache
    /\ calendar = { <<>> }
    /\ handed = EmptyBag
    /\ tick_last = [n |-> 0, t |-> 0, live |-> FALSE]
    /\ returned = None
    /\ fetch_failed = FALSE

NextDrop == \E key \in DropKeys : Drop(key[1], key[2])

SpecDrop == InitDrop /\ [][NextDrop]_vars

\* cancel_unseen_rule_reminders of db.py on the databases of the family above
\* in which the second occurrence was seen by a later pass than the first.
SweepStores ==
    { [d EXCEPT !.occurrences =
         { DrawnOccurrence, [OtherOccurrence EXCEPT !.last_seen_utc = Instant(1)] }]
      : d \in DropStores }

\* A client of db.py calls cancel_unseen_rule_reminders(conn, unseen_before_utc,
\* _now_utc()) and commits.
CancelUnseen(unseen_before_utc) ==
    /\ LET c == cancel_unseen_rule_reminders(db, unseen_before_utc, clock)
       IN  /\ db' = c.conn
           /\ returned' = [unseen_before_utc |-> unseen_before_utc, before |-> db, n |-> c.n]
    /\ UNCHANGED << up, clock, last_sync_utc, last_spawn_utc, event_cache, calendar,
                    handed, tick_last, fetch_failed >>

InitSweep ==
    /\ up = FALSE
    /\ clock = Instant(MaxInstants)
    /\ db \in SweepStores
    /\ last_sync_utc = 0
    /\ last_spawn_utc = 0
    /\ event_cache = EmptyCache
    /\ calendar = { <<>> }
    /\ handed = EmptyBag
    /\ tick_last = [n |-> 0, t |-> 0, live |-> FALSE]
    /\ returned = None
    /\ fetch_failed = FALSE

NextSweep == \E k \in 0..MaxInstants : CancelUnseen(Instant(k))

SpecSweep == InitSweep /\ [][NextSweep]_vars

\* ------------------------------------------------- ReminderRef on its own
MaxStrLen == 4
MaxRefId == 120
\* The strings handed to parse: up to MaxStrLen characters of RefChars.
RefStrings ==
    LET RefChars == { "r", "c", "x", ":", " ", "0", "1", "9", "-", "+" }
    IN  { [chars |-> s] : s \in UNION { [ 1..n -> RefChars ] : n \in 0..MaxStrLen } }

\* A client of db.py calls ReminderRef.parse on the string drawn.
Parse(value) ==
    /\ returned = [call |-> "parse", arg |-> value]
    /\ returned' = [value |-> value, ref |-> ReminderRef_parse(value)]
    /\ UNCHANGED << up, clock, db, last_sync_utc, last_spawn_utc, event_cache, calendar,
                    handed, tick_last, fetch_failed >>

\* A client of db.py calls to_external_id of the ReminderRef drawn and parses
\* the result.
ToExternalId(ref) ==
    /\ returned = [call |-> "to_external_id", arg |-> ref]
    /\ returned' = [of |-> ref, value |-> to_external_id(ref),
                    ref |-> ReminderRef_parse(to_external_id(ref))]
    /\ UNCHANGED << up, clock, db, last_sync_utc, last_spawn_utc, event_cache, calendar,
                    handed, tick_last, fetch_failed >>

\* The call to come is drawn: a string for parse, or a ReminderRef of either
\* kind with an id of at most MaxRefId in absolute value.
InitRef ==
    /\ up = FALSE
    /\ clock = StartClock
    /\ db = EmptyDb
    /\ last_sync_utc = 0
    /\ last_spawn_utc = 0
    /\ event_cache = EmptyCache
    /\ calendar = { <<>> }
    /\ handed = EmptyBag
    /\ tick_last = [n |-> 0, t |-> 0, live |-> FALSE]
    /\ returned \in { [call |-> "parse", arg |-> value] : value \in RefStrings } \cup
                    { [call |-> "to_external_id", arg |-> ReminderRef(kind, id)] :
                        kind \in { "rule", "custom" }, id \in (0 - MaxRefId)..MaxRefId }
    /\ fetch_failed = FALSE

NextRef ==
    \/ "call" \in DOMAIN returned /\ returned.call = "parse" /\ Parse(returned.arg)
    \/ "call" \in DOMAIN returned /\ returned.call = "to_external_id"
          /\ ToExternalId(returned.arg)

\* ReminderRef.parse and to_external_id, called directly.
SpecRef == InitRef /\ [][NextRef]_vars

\* ---------------------------------------------------------------- properties
\* Vocabulary of the properties below.
Pending(r) == r.fired_utc = NULL /\ r.acked_utc = NULL /\ r.cancelled_utc = NULL
Terminal(r) == r.acked_utc # NULL \/ r.cancelled_utc # NULL
OfOccurrence(r, o) == r.event_id = o.event_id /\ r.occ_start_utc = o.start_utc
\* The pass that filled cache fetched the event of occurrence o.
Observed(cache, o) ==
    /\ o.event_id \in DOMAIN cache
    /\ to_utc_epoch_seconds(cache[o.event_id].start) = o.start_utc
\* The trigger of rule i of event e, in epoch seconds.
TriggerOf(e, i) ==
    to_utc_epoch_seconds(compute_rule_specs(e.start, e.end, e.all_day)[i].trigger_local)
\* The instants at which the clock can still be read.
LaterInstants == { t \in { Instant(k) : k \in 0..MaxInstants } : t >= clock }
\* Every outcome of every call that can fire a reminder now: a scheduler tick,
\* the fire_next command, the test command.
FireOutcomesNow ==
    UNION { SchedulerTick(State, clock, env) \cup
            _handle_request(State, clock, [cmd |-> "fire_next"], env) \cup
            _handle_request(State, clock, [cmd |-> "test"], env)
            : env \in WithPresenter(FetchEnvs) }

\* C1: every reminder is handed to the presenter at most once; a reminder
\* that was handed over has fired_utc set in the committed database, whether
\* or not the presenter failed or the process ended; and every call that
\* fires a reminder picks one that has not fired, and leaves it marked fired
\* at the clock reading of the call even when the presenter raises.
C1_FiredAtMostOnce ==
    /\ \A ref \in BagToSet(handed) :
         /\ CopiesIn(ref, handed) = 1
         /\ get_reminder(db, ref) # None
         /\ get_reminder(db, ref).fired_utc # NULL
    /\ up => \A o \in FireOutcomesNow :
         o.marked # NoRef =>
           /\ ~BagIn(o.marked, handed)
           /\ get_reminder(db, o.marked).fired_utc = NULL
           /\ get_reminder(o.S.conn, o.marked).fired_utc = clock

\* C1, its case: a scheduler tick fired a reminder, the process that made the
\* tick has ended, the daemon runs again at a later instant, and the reminder
\* is still neither acknowledged nor cancelled.
C1_Witness ==
    /\ up /\ tick_last.n > 0 /\ ~tick_last.live
    /\ \E r \in AllReminders(db) :
         /\ BagIn(r.ref, handed)
         /\ r.fired_utc = tick_last.t /\ r.fired_utc < clock
         /\ r.acked_utc = NULL /\ r.cancelled_utc = NULL

C3_UnseenCancelled ==
    [][ \A o \in db.occurrences :
          (up /\ up' /\ Observed(event_cache, o) /\ ~Observed(event_cache', o))
          => \A r \in db.rule_reminders :
               (OfOccurrence(r, o) /\ Pending(r))
               => \E r2 \in db'.rule_reminders : r2.id = r.id /\ r2.cancelled_utc # NULL
      ]_vars

\* C4: a reconciliation pass that starts now, whatever the calendar returns,
\* inserts no rule reminder for a candidate whose trigger is at or before the
\* start of the pass, and changes neither trigger_utc nor requires_ack of a
\* row that exists for the candidate's key.
C4_PastSuppressed ==
    \A events \in calendar : \A e \in Range(events) :
       e.id # "" =>
         LET post == SyncPass(db, events, clock).conn
             Shape(rows, i) ==
                 { << r.id, r.trigger_utc, r.requires_ack >> :
                     r \in { x \in rows :
                               /\ x.event_id = e.id
                               /\ x.occ_start_utc = to_utc_epoch_seconds(e.start)
                               /\ x.rule_name = RuleNames[i] } }
         IN  \A i \in DOMAIN RuleNames :
                TriggerOf(e, i) <= clock
                => Shape(post.rule_reminders, i) = Shape(db.rule_reminders, i)

\* C4, its case: the six_am reminder of event "a" is pending with the trigger
\* of EventA2, and the latest pass fetched EventA1, whose six_am trigger had
\* passed when the pass started.
C4_Witness ==
    \E o \in db.occurrences : \E r \in db.rule_reminders :
       /\ OfOccurrence(r, o) /\ r.rule_name = "six_am" /\ Pending(r)
       /\ r.trigger_utc = TriggerOf(EventA2, 3)
       /\ o.end_utc = to_utc_epoch_seconds(EventA1.end)
       /\ o.last_seen_utc >= TriggerOf(EventA1, 3)

\* C5: for every key (event_id, occ_start_utc, rule_name) at most one row of
\* rule_reminders is neither acknowledged nor cancelled.
C5_OneLiveRowPerKey ==
    \A r1, r2 \in db.rule_reminders :
       ( /\ r1.event_id = r2.event_id /\ r1.occ_start_utc = r2.occ_start_utc
         /\ r1.rule_name = r2.rule_name
         /\ ~Terminal(r1) /\ ~Terminal(r2) )
       => r1 = r2

\* C5, its case: a row that was fired and is neither acknowledged nor
\* cancelled, of an occurrence that a later pass fetched as EventA2: that pass
\* called ensure_rule_reminder for the key of the existing row.
C5_Witness ==
    \E o \in db.occurrences : \E r \in db.rule_reminders :
       /\ OfOccurrence(r, o) /\ o.dropped = 0
       /\ ~Terminal(r) /\ r.fired_utc # NULL
       /\ o.end_utc = to_utc_epoch_seconds(EventA2.end)
       /\ o.last_seen_utc > r.fired_utc

\* C6 as stated: once acked_utc or cancelled_utc of a reminder is set, no
\* step changes its fired_utc, acked_utc or cancelled_utc.
C6_TerminalAbsorbing ==
    [][ \A r \in AllReminders(db) :
          Terminal(r)
          => \E r2 \in AllReminders(db') :
                /\ r2.ref = r.ref
                /\ r2.fired_utc = r.fired_utc
                /\ r2.acked_utc = r.acked_utc
                /\ r2.cancelled_utc = r.cancelled_utc ]_vars

\* C7: once a rule reminder is acknowledged or cancelled, no step changes its
\* trigger_utc or requires_ack, and ensure_rule_reminder for its key, with any
\* trigger and either requires_ack, leaves the database as it is.
C7_TerminalFrozen ==
    [][ \A r \in db.rule_reminders :
          Terminal(r)
          => /\ \E r2 \in db'.rule_reminders :
                   /\ r2.id = r.id
                   /\ r2.trigger_utc = r.trigger_utc
                   /\ r2.requires_ack = r.requires_ack
             /\ \A e \in CalendarEvents, i \in DOMAIN RuleNames, q \in { 0, 1 } :
                   ensure_rule_reminder(db, r.event_id, r.occ_start_utc, r.rule_name,
                                        TriggerOf(e, i), q, clock).conn = db ]_vars

\* C7, its case: a rule reminder with the trigger of EventA1 was acknowledged
\* or cancelled, and a later pass fetched the occurrence, which is not dropped,
\* as EventA2, whose trigger differs.
C7_Witness ==
    \E o \in db.occurrences : \E r \in db.rule_reminders :
       /\ OfOccurrence(r, o) /\ o.dropped = 0
       /\ r.trigger_utc = TriggerOf(EventA1, 3)
       /\ r.trigger_utc # TriggerOf(EventA2, 3)
       /\ o.end_utc = to_utc_epoch_seconds(EventA2.end)
       /\ \/ r.acked_utc # NULL /\ r.acked_utc < o.last_seen_utc
          \/ r.cancelled_utc # NULL /\ r.cancelled_utc < o.last_seen_utc

\* C8: the ack_reminder command on a reminder of either table that is not
\* acknowledged replies changed = true and sets acked_utc; the same command
\* again, now or at any later instant, replies changed = false and leaves the
\* database and the daemon state as they are; so does the command on a
\* reminder that is acknowledged already.
C8_AckIdempotent ==
    \A rid \in Rids :
       LET ref == ReminderRef_parse(rid)
           req == [cmd |-> "ack_reminder", id |-> rid]
       IN  (up /\ ref # None /\ get_reminder(db, ref) # None) =>
             LET o1 == CHOOSE o \in _handle_request(State, clock, req, NoEnv) : TRUE
                 fresh == get_reminder(db, ref).acked_utc = NULL
             IN  /\ o1.resp = [ok |-> TRUE, changed |-> fresh]
                 /\ get_reminder(o1.S.conn, ref).acked_utc =
                      IF fresh THEN clock ELSE get_reminder(db, ref).acked_utc
                 /\ ~fresh => o1.S = State
                 /\ \A t2 \in LaterInstants :
                      LET o2 == CHOOSE o \in _handle_request(o1.S, t2, req, NoEnv) : TRUE
                      IN  /\ o2.resp = [ok |-> TRUE, changed |-> FALSE]
                          /\ o2.S = o1.S

\* C8, its case: a rule reminder and a custom reminder were acknowledged at an
\* earlier instant, and the daemon is running.
C8_Witness ==
    /\ up
    /\ \E r \in db.rule_reminders : r.acked_utc # NULL /\ r.acked_utc < clock
    /\ \E r \in db.custom_reminders : r.acked_utc # NULL /\ r.acked_utc < clock

\* C9: upsert_occurrence on a key that exists returns inserted = false and
\* changed = (end_utc or all_day differs from the stored value), whatever
\* last_seen_utc is; it sets end_utc, all_day and last_seen_utc of that row,
\* leaves its dropped flag, and leaves every other row.
C9_UpsertExisting ==
    \A o \in db.occurrences :
       \A end_utc \in { to_utc_epoch_seconds(e.end) : e \in CalendarEvents },
          all_day \in { 0, 1 }, seen \in LaterInstants :
          LET u == upsert_occurrence(db, o.event_id, o.start_utc, end_utc, all_day, seen)
              post == get_occurrence(u.conn, o.event_id, o.start_utc)
          IN  /\ u.inserted = FALSE
              /\ u.changed = ((end_utc # o.end_utc) \/ (all_day # o.all_day))
              /\ post = [o EXCEPT !.end_utc = end_utc, !.all_day = all_day,
                                  !.last_seen_utc = seen]
              /\ post.dropped = o.dropped
              /\ u.conn.occurrences \ { post } = db.occurrences \ { o }
              /\ u.conn.rule_reminders = db.rule_reminders
              /\ u.conn.custom_reminders = db.custom_reminders

\* C9, its case: an occurrence was dropped, which cancelled a fired reminder of
\* it, and a later pass fetched it again: the dropped flag is still set.
C9_Witness ==
    \E o \in db.occurrences : \E r \in db.rule_reminders :
       /\ OfOccurrence(r, o) /\ o.dropped = 1
       /\ r.fired_utc # NULL /\ r.cancelled_utc # NULL
       /\ r.cancelled_utc < o.last_seen_utc

\* C10: list_due_reminders(conn, now, limit) returns reminders that are
\* pending with trigger_utc <= now, each once, from both tables, in
\* non-decreasing order of trigger_utc; as many as there are, or limit of
\* them; and no due reminder left out has a smaller trigger than one returned.
C10_DueList ==
    returned # None =>
      LET due == { r \in AllReminders(db) : r.trigger_utc <= clock /\ Pending(r) }
          rows == returned.rows
          n == Len(rows)
      IN  /\ n = IF Cardinality(due) < returned.limit
                 THEN Cardinality(due) ELSE returned.limit
          /\ \A i \in 1..n : rows[i] \in due
          /\ \A i, j \in 1..n :
               i < j => /\ rows[i] # rows[j]
                        /\ rows[i].trigger_utc <= rows[j].trigger_utc
          /\ \A d \in due \ Range(rows) :
               \A i \in 1..n : rows[i].trigger_utc <= d.trigger_utc

\* C10, its case: a custom reminder and then a rule reminder with a greater
\* trigger were returned, a due reminder was left out by the limit, and the
\* database holds a reminder that is not pending.
C10_Witness ==
    /\ returned # None
    /\ Len(returned.rows) = 2
    /\ returned.rows[1].ref.kind = "custom" /\ returned.rows[2].ref.kind = "rule"
    /\ returned.rows[1].trigger_utc < returned.rows[2].trigger_utc
    /\ \E d \in AllReminders(db) :
         d.trigger_utc <= clock /\ Pending(d) /\ d \notin Range(returned.rows)
    /\ \E x \in AllReminders(db) : ~Pending(x)

\* C11 as stated: ensure_rule_reminder on the key (event_id, occ_start_utc,
\* rule_name) of an occurrence of the database returns true exactly when no
\* row existed for the key, and the call then inserted one; it returns false
\* when it refreshes a row that exists and when the row that exists is
\* acknowledged or cancelled.
C11_ReturnsInserted ==
    \A o \in db.occurrences, i \in DOMAIN RuleNames :
       \A e \in CalendarEvents, j \in DOMAIN RuleNames, q \in { 0, 1 } :
          LET existed == \E r \in db.rule_reminders :
                            OfOccurrence(r, o) /\ r.rule_name = RuleNames[i]
              ens == ensure_rule_reminder(db, o.event_id, o.start_utc, RuleNames[i],
                                          TriggerOf(e, j), q, clock)
          IN  /\ ens.ret = ~existed
              /\ ens.ret => Cardinality(ens.conn.rule_reminders)
                              = Cardinality(db.rule_reminders) + 1

\* The reminders of either table of database conn that belong to the
\* occurrence of the latest call of drop_occurrence.
OfDropped(conn) ==
    { r \in AllReminders(conn) :
        r.event_id = returned.event_id /\ r.occ_start_utc = returned.occ_start_utc }

\* C12 as stated: drop_occurrence on an occurrence with m pending rule
\* reminders and k pending custom reminders, pending meaning that fired_utc,
\* acked_utc and cancelled_utc are unset, returns (m, k), sets cancelled_utc
\* on all m + k of them, sets the dropped flag of the occurrence, and leaves
\* the reminders of other occurrences as they were.
C12_DropPending ==
    returned # None =>
      LET pend == { r \in OfDropped(returned.before) : Pending(r) }
      IN  /\ returned.n_rule = Cardinality({ r \in pend : r.ref.kind = "rule" })
          /\ returned.n_custom = Cardinality({ r \in pend : r.ref.kind = "custom" })
          /\ \A r \in pend : get_reminder(db, r.ref).cancelled_utc # NULL
          /\ \A o \in db.occurrences :
               (o.event_id = returned.event_id /\ o.start_utc = returned.occ_start_utc)
               => o.dropped = 1
          /\ AllReminders(db) \ OfDropped(db)
               = AllReminders(returned.before) \ OfDropped(returned.before)

\* C12 amended: drop_occurrence at now_utc on an occurrence with m rule
\* reminders and k custom reminders that are neither acknowledged nor
\* cancelled, fired or not, returns (m, k) and sets cancelled_utc = now_utc on
\* all m + k of them, changing nothing else of them; it sets the dropped flag
\* of the occurrence and of no other; the acknowledged and the cancelled
\* reminders of the occurrence and the reminders of other occurrences stay as
\* they were.
C12_DropLive ==
    returned # None =>
      LET live == { r \in OfDropped(returned.before) : ~Terminal(r) }
      IN  /\ returned.n_rule = Cardinality({ r \in live : r.ref.kind = "rule" })
          /\ returned.n_custom = Cardinality({ r \in live : r.ref.kind = "custom" })
          /\ \A r \in live :
               get_reminder(db, r.ref) = [r EXCEPT !.cancelled_utc = clock]
          /\ \A r \in AllReminders(returned.before) \ live : r \in AllReminders(db)
          /\ Cardinality(AllReminders(db)) = Cardinality(AllReminders(returned.before))
          /\ db.occurrences =
               { IF o.event_id = returned.event_id /\ o.start_utc = returned.occ_start_utc
                 THEN [o EXCEPT !.dropped = 1] ELSE o : o \in returned.before.occurrences }

\* C12, its case: the call returned (2, 1) for an occurrence that had two
\* pending rule reminders and one pending custom reminder, all three are
\* cancelled now, and a reminder of the other occurrence is still pending.
C12_Witness ==
    /\ returned # None
    /\ returned.n_rule = 2 /\ returned.n_custom = 1
    /\ Cardinality({ r \in OfDropped(returned.before) : Pending(r) }) = 3
    /\ \A r \in OfDropped(db) : r.cancelled_utc = clock
    /\ \E o \in db.occurrences : o.event_id = returned.event_id /\ o.dropped = 1
    /\ \E r \in AllReminders(db) \ OfDropped(db) : Pending(r)

\* The instants a client may ask a snooze for: the snooze targets, and the
\* clock readings.
SnoozeInstants == SnoozeTargets \cup { Instant(k) : k \in 0..MaxInstants }

\* C13: the snooze command on a pending reminder of either table, with a
\* trigger after the clock reading, replies ok with the id of a new custom
\* reminder; it leaves the source with acked_utc set to the clock reading and
\* nothing else of it changed, adds exactly that one reminder, which is
\* pending, has the requested trigger_utc, requires_ack = 1 and the occurrence
\* key of the source, and changes no other reminder and no occurrence.
C13_Snooze ==
    \A rid \in Rids, trigger_utc \in SnoozeInstants :
       LET ref == ReminderRef_parse(rid)
           req == [cmd |-> "snooze", id |-> rid, trigger_utc |-> trigger_utc]
       IN  ( /\ up /\ trigger_utc > clock /\ ref # None
             /\ get_reminder(db, ref) # None /\ Pending(get_reminder(db, ref)) ) =>
             \A o \in _handle_request(State, clock, req, NoEnv) :
                LET src == get_reminder(db, ref)
                    post == o.S.conn
                    added == { r \in AllReminders(post) : get_reminder(db, r.ref) = None }
                IN  /\ ~o.raised /\ o.resp.ok
                    /\ get_reminder(post, ref) = [src EXCEPT !.acked_utc = clock]
                    /\ Cardinality(added) = 1
                    /\ \A r \in added :
                         /\ r.ref.kind = "custom" /\ o.resp.new_id = to_external_id(r.ref)
                         /\ Pending(r)
                         /\ r.trigger_utc = trigger_utc /\ r.requires_ack = 1
                         /\ r.event_id = src.event_id /\ r.occ_start_utc = src.occ_start_utc
                    /\ \A r \in AllReminders(db) : r.ref # ref => r \in AllReminders(post)
                    /\ Cardinality(AllReminders(post)) = Cardinality(AllReminders(db)) + 1
                    /\ post.occurrences = db.occurrences
                    /\ [o.S EXCEPT !.conn = db] = State

\* C13, its case: a rule reminder that had not fired was snoozed at an earlier
\* instant (it is acknowledged, and the custom reminder that only snooze
\* inserts is there with the requested trigger), and that custom reminder is
\* pending, so that it can be snoozed in turn.
C13_Witness ==
    /\ up
    /\ \E r \in db.rule_reminders, c \in db.custom_reminders :
         /\ r.acked_utc # NULL /\ r.fired_utc = NULL /\ r.acked_utc < clock
         /\ c.event_id = r.event_id /\ c.occ_start_utc = r.occ_start_utc
         /\ c.trigger_utc = r.acked_utc + 1 /\ c.requires_ack = 1
         /\ Pending(CustomRow(c))

\* A reply to req, under env, that is not the error reply leaving the
\* DaemonState as it is.
NotRejected(req, env, error) ==
    \E o \in _handle_request(State, clock, req, env) :
       \/ o.resp # [ok |-> FALSE, error |-> error]
       \/ o.S # State \/ o.raised \/ o.marked # NoRef \/ o.spawn_called

\* C14: while the daemon runs, the due command with a limit below 1, the
\* get_reminder, ack_reminder and snooze commands with a malformed reference,
\* and the snooze command of any reference with a trigger at or before the
\* clock reading are answered with the error limit_must_be_positive,
\* invalid_reminder_id and trigger_in_past, whatever the calendar would
\* return; the database, last_sync_utc, last_spawn_utc and the event cache stay as
\* they are, nothing is marked fired and the presenter is not called.
C14_InvalidInput ==
    up => \A env \in FetchEnvs :
       /\ \A limit \in { -1, 0 } :
            ~NotRejected([cmd |-> "due", limit |-> limit], env, "limit_must_be_positive")
       /\ \A cmd \in { "get_reminder", "ack_reminder" } :
            ~NotRejected([cmd |-> cmd, id |-> ExternalId("x:", 1)], env,
                         "invalid_reminder_id")
       /\ \A trigger_utc \in SnoozeInstants :
            /\ trigger_utc > clock =>
                 ~NotRejected([cmd |-> "snooze", id |-> ExternalId("x:", 1),
                               trigger_utc |-> trigger_utc], env, "invalid_reminder_id")
            /\ trigger_utc <= clock =>
                 \A rid \in Rids :
                    ~NotRejected([cmd |-> "snooze", id |-> rid,
                                  trigger_utc |-> trigger_utc], env, "trigger_in_past")

\* C14, its case: the daemon runs, a snooze target has passed, and the
\* database holds custom reminder 1, pending and due, which the rejected
\* commands would have listed, acknowledged or snoozed.
C14_Witness ==
    /\ up /\ \E t \in SnoozeTargets : t <= clock
    /\ \E c \in db.custom_reminders :
         c.id = 1 /\ Pending(CustomRow(c)) /\ c.trigger_utc <= clock

\* The replies that report a reference that is not in the database.
NotFoundReplies ==
    { [ok |-> FALSE, error |-> error] : error \in { "reminder_not_found",
                                                     "occurrence_not_found" } }

\* C15 as stated: while the daemon runs, the get_reminder, ack_reminder and
\* snooze commands on a well-formed reference to a reminder that is not in
\* the database, and the drop_occurrence command on the key of an occurrence
\* that is not in the database, are answered with a not-found error and leave
\* the database and the daemon state as they are.
C15_NotFound ==
    up =>
      /\ \A rid \in Rids :
           (ReminderRef_parse(rid) # None /\ get_reminder(db, ReminderRef_parse(rid)) = None)
           => \A req \in { [cmd |-> "get_reminder", id |-> rid],
                           [cmd |-> "ack_reminder", id |-> rid],
                           [cmd |-> "snooze", id |-> rid, trigger_utc |-> clock + 1] } :
                 \A env \in FetchEnvs : \A o \in _handle_request(State, clock, req, env) :
                    o.resp \in NotFoundReplies /\ o.S = State
      /\ \A event_id \in EventIds, occ_start_utc \in OccStarts :
           get_occurrence(db, event_id, occ_start_utc) = None
           => \A o \in _handle_request(State, clock,
                                       [cmd |-> "drop_occurrence", event_id |-> event_id,
                                        occ_start_utc |-> occ_start_utc], NoEnv) :
                 o.resp \in NotFoundReplies /\ o.S = State

\* The collaborators of a call during which list_events raises.
FailingEnvs == { Env(<<>>, FALSE, pres) : pres \in PresenterOutcomes }

\* The outcome of a call that raised and left DaemonState S as it was.
Aborted(S) == Outcome(S, None, TRUE, NoRef, FALSE)

\* Every call that begins with sync(), made now while list_events raises,
\* ends with the exception and with the database, last_sync_utc and the rest
\* of the DaemonState as they were.
AbortsUnchanged ==
    \A env \in FailingEnvs :
       IF up
       THEN /\ sync(State, clock, env) = Aborted(State)
            /\ _handle_request(State, clock, [cmd |-> "sync"], env) = { Aborted(State) }
            /\ (clock - last_sync_utc >= SyncIntervalS)
                 => SchedulerTick(State, clock, env) = { Aborted(State) }
            /\ (last_sync_utc = 0)
                 => _handle_request(State, clock, [cmd |-> "test"], env)
                      = { Aborted(State) }
       ELSE sync(NewDaemonState(db), clock, env) = Aborted(NewDaemonState(db))

\* Database d differs from database c by something only a pass does: an
\* occurrence inserted or updated, a rule reminder inserted or refreshed, or a
\* rule reminder cancelled whose occurrence is not dropped.
PassEffect(c, d) ==
    \/ { [o EXCEPT !.dropped = 0] : o \in d.occurrences }
         # { [o EXCEPT !.dropped = 0] : o \in c.occurrences }
    \/ \E r \in d.rule_reminders :
          \/ ~\E q \in c.rule_reminders :
                 /\ q.id = r.id /\ q.trigger_utc = r.trigger_utc
                 /\ q.requires_ack = r.requires_ack
          \/ /\ r.cancelled_utc # NULL
             /\ \E q \in c.rule_reminders : q.id = r.id /\ q.cancelled_utc = NULL
             /\ \E o \in d.occurrences : OfOccurrence(r, o) /\ o.dropped = 0

\* Database d is database p, or p with one reminder marked fired at the clock
\* reading.
UpToFire(p, d) ==
    /\ d.occurrences = p.occurrences
    /\ \/ AllReminders(d) = AllReminders(p)
       \/ \E x \in AllReminders(p) :
             /\ x.fired_utc = NULL
             /\ AllReminders(d) = (AllReminders(p) \ { x })
                                    \cup { [x EXCEPT !.fired_utc = clock] }

\* C16: a call of sync() whose calendar fetch raises, from run(), the
\* scheduler tick, the sync command or the test command, leaves the committed
\* database, last_sync_utc and the event cache as they were; the step of a
\* failed fetch changes neither the database nor what was handed to the
\* presenter; and every step that leaves in the committed database an effect
\* of a pass (an occurrence upserted, a rule reminder inserted, refreshed or
\* swept) leaves it as one complete pass over one fetched list leaves it, up
\* to the one reminder the same call may mark fired afterwards.
C16_PassAtomic ==
    /\ []AbortsUnchanged
    /\ [][ /\ fetch_failed' => (db' = db /\ handed' = handed)
           /\ PassEffect(db, db')
                => \E events \in calendar :
                      UpToFire(SyncPass(db, events, clock).conn, db')
         ]_vars

\* C16, its case: the latest step began a pass whose fetch raised, on a
\* database that holds an occurrence seen by an earlier pass and a pending
\* rule reminder of it, which a pass over the empty list would have swept.
C16_Witness ==
    /\ fetch_failed
    /\ \E o \in db.occurrences, r \in db.rule_reminders :
         OfOccurrence(r, o) /\ Pending(RuleRow(r)) /\ o.last_seen_utc < clock

\* C17 as stated: when a reconciliation pass of the running daemon, begun by
\* a scheduler tick or by a command, fails because the calendar fetch raises,
\* the scheduler loop is still running afterwards, so that a later tick
\* attempts the reconciliation again.
C17_LoopSurvivesFailedPass ==
    [][ (up /\ fetch_failed') => up' ]_vars

\* Seconds of a day and of a week.
Day == 24 * 3600
Week == 7 * Day

\* The four rule reminders of an event that starts at local time T, as
\* << rule_name, trigger_utc, requires_ack >>: T - 7d, T - 1d, 06:00 local
\* time on the date of T, T - 30m.
FourRules(e) ==
    LET T == to_utc_epoch_seconds(e.start)
        off == IF e.start.off = NoTz THEN LocalTzOffset ELSE e.start.off
    IN  { << "week_before", T - Week, 0 >>, << "day_before", T - Day, 1 >>,
          << "six_am", (e.start.wall \div Day) * Day + 6 * 3600 - off, 0 >>,
          << "minus_30m", T - 30 * 60, 1 >> }

\* The rule reminders of the occurrence of event e in database conn.
RulesOf(conn, e) ==
    { r \in conn.rule_reminders :
        r.event_id = e.id /\ r.occ_start_utc = to_utc_epoch_seconds(e.start) }

\* A pass that starts now and fetches events leaves for the occurrence of e
\* exactly the four rule reminders, all pending.
LeavesFourPending(events, e) ==
    LET rows == RulesOf(SyncPass(db, events, clock).conn, e)
    IN  /\ Cardinality(rows) = 4
        /\ { << r.rule_name, r.trigger_utc, r.requires_ack >> : r \in rows } = FourRules(e)
        /\ \A r \in rows : Pending(RuleRow(r))

\* C18 as stated: for an occurrence that is not dropped, with all_day false,
\* whose local start T is one week after the start of the pass, the pass
\* leaves exactly four rule reminders, week_before at T - 7d, day_before at
\* T - 1d, six_am at 06:00 local time on the date of T, minus_30m at T - 30m,
\* all four pending, with requires_ack 0, 1, 0, 1.
C18_FourAtOneWeek ==
    \A events \in calendar : \A e \in Range(events) :
       ( /\ e.id # "" /\ ~e.all_day
         /\ to_utc_epoch_seconds(e.start) = clock + Week
         /\ \A o \in db.occurrences :
              (o.event_id = e.id /\ o.start_utc = to_utc_epoch_seconds(e.start))
              => o.dropped = 0 )
       => LeavesFourPending(events, e)

\* C18 amended: for an occurrence that is not dropped, with all_day false,
\* whose local start T is more than one week after the start of the pass, and
\* whose rule reminders, if it has any, are all pending, the pass leaves
\* exactly the four rule reminders, all four pending, with requires_ack
\* 0, 1, 0, 1.
C18_FourBeyondOneWeek ==
    \A events \in calendar : \A e \in Range(events) :
       ( /\ e.id # "" /\ ~e.all_day
         /\ to_utc_epoch_seconds(e.start) > clock + Week
         /\ \A o \in db.occurrences :
              (o.event_id = e.id /\ o.start_utc = to_utc_epoch_seconds(e.start))
              => o.dropped = 0
         /\ \A r \in RulesOf(db, e) : Pending(RuleRow(r)) )
       => LeavesFourPending(events, e)

\* C18, its case: a pass that started more than one week before the start of
\* event "w" has left its occurrence, not dropped, with the four rule
\* reminders, all pending, and the daemon is running at that instant.
C18_Witness ==
    /\ up /\ last_sync_utc = clock
    /\ \E o \in db.occurrences :
         /\ o.dropped = 0 /\ o.last_seen_utc = clock /\ o.start_utc > clock + Week
         /\ Cardinality({ r \in RulesOf(db, EventW) : Pending(RuleRow(r)) }) = 4

\* C19: in every reachable state every row of rule_reminders and of
\* custom_reminders has the (event_id, occ_start_utc) of a row of occurrences;
\* and no step removes an occurrence or changes its key.
C19_ReferentialIntegrity ==
    /\ [](\A r \in AllReminders(db) : \E o \in db.occurrences : OfOccurrence(r, o))
    /\ [][ \A o \in db.occurrences :
             \E o2 \in db'.occurrences :
                o2.event_id = o.event_id /\ o2.start_utc = o.start_utc ]_vars

\* C19, its case: an occurrence that the latest pass did not fetch and that
\* was dropped still has its row, and a rule reminder and a custom reminder,
\* which snooze inserted, refer to it.
C19_Witness ==
    /\ up
    /\ \E o \in db.occurrences :
         /\ o.dropped = 1 /\ o.last_seen_utc < last_sync_utc
         /\ \E r \in db.rule_reminders : OfOccurrence(r, o)
         /\ \E c \in db.custom_reminders : OfOccurrence(c, o)

\* C20: an occurrence that is dropped stays dropped, and no step, and no pass
\* that could start now whatever the calendar returns, inserts a rule
\* reminder for it or changes trigger_utc or requires_ack of one of its rule
\* reminders.
C20_DroppedNotDerived ==
    /\ [](\A o \in db.occurrences : \A events \in calendar :
            o.dropped = 1 =>
              { << r.id, r.trigger_utc, r.requires_ack >> :
                  r \in { x \in SyncPass(db, events, clock).conn.rule_reminders :
                            OfOccurrence(x, o) } }
              = { << r.id, r.trigger_utc, r.requires_ack >> :
                    r \in { x \in db.rule_reminders : OfOccurrence(x, o) } })
    /\ [][ \A o \in db.occurrences :
             o.dropped = 1 =>
               /\ \E o2 \in db'.occurrences :
                     /\ o2.event_id = o.event_id /\ o2.start_utc = o.start_utc
                     /\ o2.dropped = 1
               /\ { << r.id, r.trigger_utc, r.requires_ack >> :
                      r \in { x \in db'.rule_reminders : OfOccurrence(x, o) } }
                  = { << r.id, r.trigger_utc, r.requires_ack >> :
                        r \in { x \in db.rule_reminders : OfOccurrence(x, o) } } ]_vars

\* C20, its case: an occurrence without rule reminders was dropped, and the
\* latest pass, at a later instant, fetched it as EventA2, whose six_am
\* trigger was still ahead: the occurrence has no rule reminder.
C20_Witness ==
    /\ up /\ "a" \in DOMAIN event_cache /\ event_cache["a"] = EventA2
    /\ \E o \in db.occurrences :
         /\ o.dropped = 1 /\ o.last_seen_utc = last_sync_utc
         /\ o.end_utc = to_utc_epoch_seconds(EventA2.end)
         /\ TriggerOf(EventA2, 3) > o.last_seen_utc
         /\ \A r \in db.rule_reminders : ~OfOccurrence(r, o)

\* The summaries of reply resp are in non-decreasing order of trigger_utc.
OrderedByTrigger(resp) ==
    \A i, j \in DOMAIN resp.reminders :
       i < j => resp.reminders[i].trigger_utc <= resp.reminders[j].trigger_utc

\* C21 as stated: while the daemon runs, the request for the due reminders and
\* the request for the pending reminders, with a limit of at least 1, are both
\* answered ok with reminder summaries in non-decreasing order of trigger_utc:
\* those of reminders with trigger_utc <= now for due, with trigger_utc > now
\* for pending.
C21_ListsAnswered ==
    up => \A limit \in 1..MaxLimit :
       /\ \A o \in _handle_request(State, clock, [cmd |-> "due", limit |-> limit], NoEnv) :
            /\ o.resp.ok /\ OrderedByTrigger(o.resp)
            /\ \A i \in DOMAIN o.resp.reminders : o.resp.reminders[i].trigger_utc <= clock
       /\ \A cmd \in { "pending", "list_pending" } :
            \A o \in _handle_request(State, clock, [cmd |-> cmd, limit |-> limit], NoEnv) :
               /\ o.resp.ok /\ OrderedByTrigger(o.resp)
               /\ \A i \in DOMAIN o.resp.reminders : o.resp.reminders[i].trigger_utc > clock

\* The reminders of database conn that are pending and due at now_utc, and
\* those of them with the smallest trigger_utc.
DuePending(conn, now_utc) ==
    { r \in AllReminders(conn) : r.trigger_utc <= now_utc /\ Pending(r) }
Earliest(rows) == { r \in rows : \A d \in rows : r.trigger_utc <= d.trigger_utc }

\* Outcome o of a call made now marked reminder r fired at the clock reading
\* and changed nothing else of the database.
FiredOnly(o, r) ==
    /\ o.marked = r.ref
    /\ AllReminders(o.S.conn) = (AllReminders(db) \ { r }) \cup { [r EXCEPT !.fired_utc = clock] }
    /\ o.S.conn.occurrences = db.occurrences

\* Outcome o of a call made now changed nothing.
NothingDone(o) ==
    o.S = State /\ ~o.raised /\ o.marked = NoRef /\ ~o.spawn_called

\* C22: while the daemon runs, the fire_next command, whenever the last fire
\* was, marks fired one reminder that is pending and due with no due pending
\* reminder of either table before it, and hands it to the presenter; unless
\* the presenter raises it replies ok with the id of that reminder.  It
\* replies no_due_reminders exactly when no pending reminder is due, and then
\* the database and the daemon state stay as they are.
C22_FireNext ==
    up => \A env \in PresEnvs :
       \A o \in _handle_request(State, clock, [cmd |-> "fire_next"], env) :
          IF DuePending(db, clock) = {}
          THEN o.resp = [ok |-> FALSE, error |-> "no_due_reminders"] /\ NothingDone(o)
          ELSE /\ \E r \in Earliest(DuePending(db, clock)) :
                    /\ FiredOnly(o, r)
                    /\ ~o.raised => o.resp = [ok |-> TRUE, reminder_id |-> to_external_id(r.ref)]
               /\ o.raised <=> env.pres \in { "sound_raises", "spawn_raises" }

\* C22, its case: a scheduler tick of the running process fired a reminder at
\* this clock reading, so that the throttle window is open, and another
\* reminder is pending and due.
C22_Witness ==
    /\ up /\ tick_last.live /\ tick_last.t = clock /\ last_spawn_utc = clock
    /\ DuePending(db, clock) # {}

\* The start of the latest call of compute_rule_specs, a naive start taken as
\* local time.
DerivedStart ==
    IF returned.start.off = NoTz THEN [returned.start EXCEPT !.off = LocalTzOffset]
    ELSE returned.start

\* C23: compute_rule_specs returns four specs, in this order: week_before at
\* start - 7 days with requires_ack 0, day_before at start - 1 day with
\* requires_ack 1, six_am at 06:00 on the date of the start in the zone of the
\* start with requires_ack 0, minus_30m at start - 30 minutes with
\* requires_ack 1; a naive start is taken as local time; and the result is the
\* same for every end and either all_day.
C23_FourSpecs ==
    returned # None =>
      LET s == DerivedStart
          specs == returned.specs
      IN  /\ Len(specs) = 4
          /\ [ i \in 1..4 |-> specs[i].rule_name ]
               = << "week_before", "day_before", "six_am", "minus_30m" >>
          /\ [ i \in 1..4 |-> specs[i].requires_ack ] = << 0, 1, 0, 1 >>
          /\ \A i \in 1..4 : specs[i].trigger_local.off = s.off
          /\ specs[1].trigger_local.wall = s.wall - Week
          /\ specs[2].trigger_local.wall = s.wall - Day
          /\ specs[3].trigger_local.wall \div Day = s.wall \div Day
          /\ specs[3].trigger_local.wall % Day = 6 * 3600
          /\ specs[4].trigger_local.wall = s.wall - 30 * 60
          /\ \A end \in RuleEnds(returned.start) \cup { returned.start }, all_day \in BOOLEAN :
               compute_rule_specs(returned.start, end, all_day) = specs

\* C23, its case: the function was called on a naive start at 00:29 of an
\* all-day event: minus_30m falls on the day before, six_am after the start.
C23_Witness ==
    /\ returned # None /\ returned.start.off = NoTz /\ returned.all_day
    /\ returned.start.wall % Day = 29 * 60
    /\ returned.specs[4].trigger_local.wall \div Day < returned.start.wall \div Day
    /\ returned.specs[3].trigger_local.wall > returned.start.wall

\* C24 as stated: once a rule reminder has fired, acknowledged or not, no
\* step changes its trigger_utc or requires_ack, and ensure_rule_reminder for
\* its key, with any trigger and either requires_ack, leaves the database as
\* it is; only a row with fired_utc, acked_utc and cancelled_utc unset is
\* refreshed.
C24_FiredFrozen ==
    [][ \A r \in db.rule_reminders :
          r.fired_utc # NULL
          => /\ \E r2 \in db'.rule_reminders :
                   /\ r2.id = r.id
                   /\ r2.trigger_utc = r.trigger_utc
                   /\ r2.requires_ack = r.requires_ack
             /\ \A e \in CalendarEvents, i \in DOMAIN RuleNames, q \in { 0, 1 } :
                   ensure_rule_reminder(db, r.event_id, r.occ_start_utc, r.rule_name,
                                        TriggerOf(e, i), q, clock).conn = db ]_vars

\* The rule reminders of database conn that are pending and whose occurrence
\* was last seen before unseen_before_utc.
UnseenPending(conn, unseen_before_utc) ==
    { r \in conn.rule_reminders :
        /\ Pending(r)
        /\ \E o \in conn.occurrences :
              OfOccurrence(r, o) /\ o.last_seen_utc < unseen_before_utc }

\* C25: cancel_unseen_rule_reminders(unseen_before_utc, cancelled_utc) sets
\* cancelled_utc of the rule reminders that are pending and whose occurrence
\* has last_seen_utc < unseen_before_utc, and returns their number; it changes
\* nothing else: not the other columns of those rows, not the rule reminders
\* that are fired, acknowledged or cancelled or whose occurrence was seen, no
\* custom reminder and no occurrence.
C25_SweepFrame ==
    returned # None =>
      LET upd == UnseenPending(returned.before, returned.unseen_before_utc)
      IN  /\ returned.n = Cardinality(upd)
          /\ db.rule_reminders =
               (returned.before.rule_reminders \ upd)
               \cup { [r EXCEPT !.cancelled_utc = clock] : r \in upd }
          /\ db.custom_reminders = returned.before.custom_reminders
          /\ db.occurrences = returned.before.occurrences

\* C25, its case: the call cancelled one rule reminder; a fired rule reminder
\* and a pending custom reminder of the same unseen occurrence, and a pending
\* rule reminder of the occurrence that was seen, are as they were.
C25_Witness ==
    /\ returned # None /\ returned.n = 1
    /\ \E x \in UnseenPending(returned.before, returned.unseen_before_utc) :
         /\ \E r \in db.rule_reminders :
              /\ r.event_id = x.event_id /\ r.occ_start_utc = x.occ_start_utc
              /\ r.fired_utc # NULL /\ r.cancelled_utc = NULL /\ r.acked_utc = NULL
         /\ \E c \in db.custom_reminders :
              c.event_id = x.event_id /\ c.occ_start_utc = x.occ_start_utc /\ Pending(c)
         /\ \E r \in db.rule_reminders : r.event_id # x.event_id /\ Pending(r)

\* C26: while the daemon runs, a call of fire_one_due that the throttle does
\* not stop (ignore_throttle, or no fire of this process within
\* spawn_throttle_s) marks fired exactly one reminder, one that is pending and
\* due with no due pending reminder of either table before it, and returns
\* its id unless the presenter raises; when no pending reminder is due it
\* returns None and the database and the daemon state stay as they are.
C26_FiresEarliestDue ==
    up => \A ignore_throttle \in BOOLEAN, env \in PresEnvs :
       (ignore_throttle \/ last_spawn_utc = 0 \/ clock - last_spawn_utc >= SpawnThrottleS)
       => \A o \in fire_one_due(State, clock, ignore_throttle, env) :
             IF DuePending(db, clock) = {}
             THEN o.resp = None /\ NothingDone(o)
             ELSE \E r \in Earliest(DuePending(db, clock)) :
                     /\ FiredOnly(o, r)
                     /\ ~o.raised => o.resp = to_external_id(r.ref)

\* C26, its case: a scheduler tick at this clock reading fired a reminder of
\* one table while a reminder of the other table with a greater trigger was
\* due too, and that one is still pending.
C26_Witness ==
    /\ up /\ tick_last.live /\ tick_last.t = clock
    /\ \E f, p \in AllReminders(db) :
         /\ f.fired_utc = clock /\ BagIn(f.ref, handed)
         /\ Pending(p) /\ p.trigger_utc <= clock
         /\ f.trigger_utc < p.trigger_utc /\ f.ref.kind # p.ref.kind

\* A fire of the running process is within the throttle window.
InThrottleWindow == last_spawn_utc # 0 /\ clock - last_spawn_utc < SpawnThrottleS

\* A call of fire_one_due with ignore_throttle false made inside the throttle
\* window returns None and leaves the database and the daemon state as they
\* are; and every call that can fire a reminder now leaves last_spawn_utc as
\* it is unless it marked a reminder fired, called spawn_terminal for it and
\* no exception left the presenter, and then sets it to the clock reading.
ThrottledDoesNothing ==
    up =>
      /\ InThrottleWindow
           => \A env \in PresEnvs :
                 fire_one_due(State, clock, FALSE, env)
                   = { Outcome(State, None, FALSE, NoRef, FALSE) }
      /\ \A o \in FireOutcomesNow :
           o.S.last_spawn_utc # last_spawn_utc
           => /\ o.marked # NoRef /\ o.spawn_called /\ ~o.raised
              /\ o.S.last_spawn_utc = clock

\* C27: fire_one_due with ignore_throttle false, called while a fire of the
\* running process is within spawn_throttle_s, returns None and changes
\* neither the database nor last_spawn_utc, also when reminders are due; and
\* no step of the running daemon changes last_spawn_utc except one that marks
\* a reminder fired and hands it to the presenter without an exception.
C27_ThrottleFrame ==
    /\ []ThrottledDoesNothing
    /\ [][ (up /\ up' /\ last_spawn_utc' # last_spawn_utc)
           => /\ last_spawn_utc' = clock
              /\ \E r \in AllReminders(db) :
                    /\ r.fired_utc = NULL
                    /\ get_reminder(db', r.ref).fired_utc = clock
                    /\ handed' = handed (+) SetToBag({ r.ref }) ]_vars

\* C27, its case: the running process fired a reminder at an earlier clock
\* reading less than spawn_throttle_s ago, and a reminder is pending and due.
C27_Witness ==
    /\ up /\ InThrottleWindow /\ last_spawn_utc < clock
    /\ DuePending(db, clock) # {}

\* The reminders of database conn that are pending with a trigger after
\* now_utc.
FuturePending(conn, now_utc) ==
    { r \in AllReminders(conn) : r.trigger_utc > now_utc /\ Pending(r) }

LiveOfKind(conn, r, kind) ==
    { x \in AllReminders(conn) :
        /\ x.event_id = r.event_id /\ x.occ_start_utc = r.occ_start_utc
        /\ x.ref.kind = kind /\ ~Terminal(x) }

\* C29: while the daemon runs, for every reminder of either table that has
\* fired and is neither acknowledged nor cancelled, the ack_reminder command
\* replies changed = true and sets its acked_utc to the clock reading, and the
\* drop_occurrence command on its occurrence sets its cancelled_utc to the
\* clock reading and replies with counts that include it: the numbers of rule
\* and of custom reminders of the occurrence that were neither acknowledged
\* nor cancelled.
C29_FiredStillLive ==
    up => \A r \in AllReminders(db) :
       (r.fired_utc # NULL /\ ~Terminal(r)) =>
         /\ \A o \in _handle_request(State, clock,
                                     [cmd |-> "ack_reminder", id |-> to_external_id(r.ref)],
                                     NoEnv) :
              /\ o.resp = [ok |-> TRUE, changed |-> TRUE]
              /\ get_reminder(o.S.conn, r.ref) = [r EXCEPT !.acked_utc = clock]
         /\ \A o \in _handle_request(State, clock,
                                     [cmd |-> "drop_occurrence", event_id |-> r.event_id,
                                      occ_start_utc |-> r.occ_start_utc], NoEnv) :
              /\ get_reminder(o.S.conn, r.ref) = [r EXCEPT !.cancelled_utc = clock]
              /\ o.resp = [ok |-> TRUE,
                           cancelled_rule |-> Cardinality(LiveOfKind(db, r, "rule")),
                           cancelled_custom |-> Cardinality(LiveOfKind(db, r, "custom"))]
              /\ r \in LiveOfKind(db, r, r.ref.kind)

\* C29, its case: one reminder was acknowledged after it had fired, and
\* another, of a dropped occurrence, was cancelled after it had fired without
\* having been acknowledged.
C29_Witness ==
    /\ up
    /\ \E a, c \in AllReminders(db) :
         /\ a.ref # c.ref
         /\ a.fired_utc # NULL /\ a.acked_utc # NULL /\ a.acked_utc >= a.fired_utc
         /\ c.fired_utc # NULL /\ c.acked_utc = NULL
         /\ c.cancelled_utc # NULL /\ c.cancelled_utc >= c.fired_utc
         /\ \E o \in db.occurrences : OfOccurrence(c, o) /\ o.dropped = 1

\* Every request a client may send now.
AllRequests == Requests \cup CmdPing \cup CmdNext

\* C30 as stated: while the daemon runs, the calendar is fetched by a
\* reconciliation pass only: for every command that does not begin with a
\* pass (all but sync, and test when no pass has been made), and for the
\* firing step of a scheduler tick whose pass is not due, the outcome is the
\* same whatever list_events would return or raise.
C30_FetchOnlyInPass ==
    up => \A env1 \in FetchEnvs, env2 \in FetchEnvs :
       /\ \A req \in AllRequests :
            ~SyncsFirst(req)
            => _handle_request(State, clock, req, env1)
                 = _handle_request(State, clock, req, env2)
       /\ clock - last_sync_utc < SyncIntervalS
            => SchedulerTick(State, clock, env1) = SchedulerTick(State, clock, env2)
       /\ fire_one_any(State, clock, env1) = fire_one_any(State, clock, env2)

\* The keys of the occurrences of store conn, and those of the dropped ones.
OccKeys(conn) == { << o.event_id, o.start_utc >> : o \in conn.occurrences }
DroppedKeys(conn) ==
    { << o.event_id, o.start_utc >> : o \in { x \in conn.occurrences : x.dropped = 1 } }

\* C31: occurrences are never deleted and the dropped flag never goes back:
\* across every step, and across every pass that could start now whatever the
\* calendar returns, each occurrence key is still there and each key whose
\* dropped flag was set has it set.
C31_OccurrencesKept ==
    /\ [](\A events \in calendar :
            LET post == SyncPass(db, events, clock).conn
            IN  /\ OccKeys(db) \subseteq OccKeys(post)
                /\ DroppedKeys(db) \subseteq DroppedKeys(post))
    /\ [][ /\ OccKeys(db) \subseteq OccKeys(db')
           /\ DroppedKeys(db) \subseteq DroppedKeys(db') ]_vars

\* C31, its case: an occurrence was dropped, which cancelled a reminder of it
\* that had not fired, and the latest pass, at a later instant, fetched the
\* occurrence again.
C31_Witness ==
    /\ up
    /\ \E o \in db.occurrences : \E r \in db.rule_reminders :
         /\ OfOccurrence(r, o) /\ o.dropped = 1
         /\ r.fired_utc = NULL /\ r.cancelled_utc # NULL
         /\ r.cancelled_utc < o.last_seen_utc /\ o.last_seen_utc = last_sync_utc

\* C32 as stated: parse(to_external_id(ref)) = ref for both kinds and every
\* id, the external ids of a rule and of a custom reference with the same id
\* differ, and parse rejects every string that starts with neither "r:" nor
\* "c:".
C32_RoundTrip ==
    /\ "of" \in DOMAIN returned =>
          /\ returned.ref = returned.of
          /\ to_external_id(ReminderRef("rule", returned.of.id))
               # to_external_id(ReminderRef("custom", returned.of.id))
    /\ ( /\ "value" \in DOMAIN returned
         /\ "call" \notin DOMAIN returned
         /\ ~startswith(returned.value.chars, << "r", ":" >>)
         /\ ~startswith(returned.value.chars, << "c", ":" >>) )
       => returned.ref = None

\* C32, amended: parse(to_external_id(ref)) = ref for both kinds and every id,
\* the external ids of a rule and of a custom reference with the same id
\* differ, and parse rejects every string that, with the whitespace around it
\* stripped, starts with neither "r:" nor "c:".
C32_RoundTripStripped ==
    /\ "of" \in DOMAIN returned =>
          /\ returned.ref = returned.of
          /\ to_external_id(ReminderRef("rule", returned.of.id))
               # to_external_id(ReminderRef("custom", returned.of.id))
    /\ ( /\ "value" \in DOMAIN returned
         /\ "call" \notin DOMAIN returned
         /\ ~startswith(strip(returned.value.chars), << "r", ":" >>)
         /\ ~startswith(strip(returned.value.chars), << "c", ":" >>) )
       => returned.ref = None

\* C32, its case: the custom reference with id 109 was written as "c:109" and
\* parsed back.
C32_Witness ==
    /\ "of" \in DOMAIN returned
    /\ returned.of = ReminderRef("custom", 109)
    /\ returned.value = [chars |-> << "c", ":", "1", "0", "9" >>]
    /\ returned.ref = ReminderRef("custom", 109)

\* C33: a failure of play_sound never keeps the session from being opened:
\* while the daemon runs, every scheduler tick, fire_next command and test
\* command that marks a reminder fired while play_sound fails (it ends with a
\* non-zero exit status, or it raises) calls spawn_terminal.
C33_SoundNeverBlocksSession ==
    up => \A env \in WithPresenter(FetchEnvs) :
       env.pres \in { "sound_exit_nonzero", "sound_raises" } =>
         \A o \in SchedulerTick(State, clock, env) \cup
                  _handle_request(State, clock, [cmd |-> "fire_next"], env) \cup
                  _handle_request(State, clock, [cmd |-> "test"], env) :
            o.marked # NoRef => o.spawn_called

\* C34: from the drop onward a dropped occurrence has no pending reminder in
\* either table, and no step marks a reminder of a dropped occurrence fired.
C34_DroppedNeverFires ==
    /\ [](\A o \in db.occurrences : \A r \in AllReminders(db) :
            (o.dropped = 1 /\ OfOccurrence(r, o)) => ~Pending(r))
    /\ [][ \A o \in db.occurrences : \A r \in AllReminders(db') :
             (o.dropped = 1 /\ OfOccurrence(r, o) /\ r.fired_utc # NULL) =>
                \E q \in AllReminders(db) : q.ref = r.ref /\ q.fired_utc = r.fired_utc ]_vars

\* C35: while the loop keeps iterating and the presenter succeeds, every
\* reminder that is pending with trigger_utc <= now is eventually fired,
\* acknowledged or cancelled, whatever sync and snooze create meanwhile.
C35_DueEventuallyServed ==
    \A ref \in { ReminderRef("rule", 1), ReminderRef("rule", 2), ReminderRef("custom", 1) } :
       (\E r \in AllReminders(db) : r.ref = ref /\ Pending(r) /\ r.trigger_utc <= clock)
       ~> (\E r \in AllReminders(db) : r.ref = ref /\ ~Pending(r))

\* C35, its case: two reminders were due together; a tick fired one, and a
\* later tick, after the throttle window, fired the other.
C35_Witness ==
    /\ up /\ tick_last.n >= 2
    /\ \E f, g \in AllReminders(db) :
         /\ f.fired_utc # NULL /\ g.fired_utc # NULL
         /\ g.trigger_utc <= f.fired_utc /\ f.fired_utc < g.fired_utc
         /\ g.fired_utc = tick_last.t

SameRule(conn, r) ==
    { q \in conn.rule_reminders :
        /\ q.event_id = r.event_id /\ q.occ_start_utc = r.occ_start_utc
        /\ q.rule_name = r.rule_name }

\* C37: a cancellation is permanent: a pass that could start now, whatever
\* the calendar returns (the occurrence observed again or not), leaves a
\* cancelled rule reminder as it is and the only row of its rule; and across
\* every step it stays cancelled at the same instant and the only row of its
\* rule.
C37_SweepPermanent ==
    /\ [](\A events \in calendar : \A r \in db.rule_reminders :
            r.cancelled_utc # NULL =>
               SameRule(SyncPass(db, events, clock).conn, r) = { r })
    /\ [][ \A r \in db.rule_reminders :
             r.cancelled_utc # NULL =>
                /\ SameRule(db', r) # {}
                /\ \A q \in SameRule(db', r) :
                      /\ q.id = r.id /\ q.cancelled_utc = r.cancelled_utc
                      /\ q.trigger_utc = r.trigger_utc ]_vars

\* C37, its case: the sweep of a pass that did not fetch the occurrence
\* cancelled its six_am reminder, which had not fired; the occurrence was
\* never dropped; and the latest pass, at a later instant, fetched it again
\* as EventA2, whose six_am trigger is still ahead.
C37_Witness ==
    /\ up /\ "a" \in DOMAIN event_cache /\ event_cache["a"] = EventA2
    /\ \E o \in db.occurrences : \E r \in db.rule_reminders :
         /\ OfOccurrence(r, o) /\ o.dropped = 0 /\ o.last_seen_utc = last_sync_utc
         /\ r.rule_name = "six_am" /\ r.fired_utc = NULL /\ r.acked_utc = NULL
         /\ r.cancelled_utc # NULL /\ r.cancelled_utc < o.last_seen_utc
         /\ TriggerOf(EventA2, 3) > o.last_seen_utc
         /\ SameRule(db, r) = { r }

\* C38: reconciliation is idempotent on unchanged calendar data: after a pass
\* that starts now, a second pass over the same fetched events, now or at any
\* later instant, inserts no reminder, cancels none and changes no field of a
\* reminder; of the occurrences it changes last_seen_utc only.
C38_SecondPassIdempotent ==
    \A events \in calendar : \A t \in LaterInstants :
       LET first == SyncPass(db, events, clock).conn
           second == SyncPass(first, events, t).conn
       IN  /\ second.rule_reminders = first.rule_reminders
           /\ second.custom_reminders = first.custom_reminders
           /\ { [o EXCEPT !.last_seen_utc = 0] : o \in second.occurrences }
                = { [o EXCEPT !.last_seen_utc = 0] : o \in first.occurrences }
====
